---- MODULE Spec2Model ----
(***************************************************************************)
(* Model of pwndbg's instruction enhancement pipeline:                     *)
(*   pwndbg/disasm/arch.py      DisassemblyAssistant (base assistant)      *)
(*   pwndbg/disasm/x86.py       DisassemblyAssistant (x86 / x86-64)        *)
(*   pwndbg/disasm/__init__.py  get_one_instruction, one, get, near        *)
(* The debuggee, the decoder and the emulator are external collaborators;  *)
(* they are modelled by a small machine with pointer-sized memory cells.   *)
(***************************************************************************)
EXTENDS Integers, Sequences, FiniteSets, TLC

(* ------------------------------------------------------------------ *)
(* Bounds of the model                                                 *)
(* ------------------------------------------------------------------ *)
\* width of a pointer in the scaled-down machine (ptrmask = 2^PtrBits - 1)
PtrBits == 6
\* largest `instructions` argument given to near
MaxN == 2
\* largest `limit` argument given to telescope
MaxLimit == 3
\* number of debuggee single-steps (stepi) explored
MaxStepi == 2
\* number of near() calls explored
MaxCalls == 2

ptrmask == (2 ^ PtrBits) - 1
ptrsize == 8

\* x & ptrmask, for any Python integer x (negative ones included)
Mask(x) == x % (2 ^ PtrBits)

(* ------------------------------------------------------------------ *)
(* Optional values (Python None)                                       *)
(* ------------------------------------------------------------------ *)
NONE == [some |-> FALSE, val |-> 0]
Some(v) == [some |-> TRUE, val |-> v]
MaskOpt(o) == IF o.some THEN Some(Mask(o.val)) ELSE NONE

(* ------------------------------------------------------------------ *)
(* The debuggee's address space                                        *)
(* ------------------------------------------------------------------ *)
Addr == 0 .. ptrmask

\* pages of the debuggee: code and read-only data (not writable), data and
\* stack (writable); every other address is unmapped
Layout ==
    [codeLo |-> 8, codeHi |-> 23, roLo |-> 24, roHi |-> 31,
     dataLo |-> 32, dataHi |-> 39, stackLo |-> 48, stackHi |-> 63,
     stackTop |-> 56, straightLo |-> 8, straightHi |-> 14]
CodeLo == Layout.codeLo
CodeHi == Layout.codeHi
RoLo == Layout.roLo
RoHi == Layout.roHi
DataLo == Layout.dataLo
DataHi == Layout.dataHi
StackLo == Layout.stackLo
StackHi == Layout.stackHi

\* pwndbg.gdblib.vmmap.find(address): the page holding the address, or None
vmmap_find(a) ==
    IF a >= CodeLo /\ a <= CodeHi THEN [mapped |-> TRUE, write |-> FALSE]
    ELSE IF a >= RoLo /\ a <= RoHi THEN [mapped |-> TRUE, write |-> FALSE]
    ELSE IF a >= DataLo /\ a <= DataHi THEN [mapped |-> TRUE, write |-> TRUE]
    ELSE IF a >= StackLo /\ a <= StackHi THEN [mapped |-> TRUE, write |-> TRUE]
    ELSE [mapped |-> FALSE, write |-> FALSE]

\* the memory of the debuggee when it is first stopped: a pointer-sized
\* value per mapped address
InitMem ==
    [a \in Addr |->
        IF a >= RoLo /\ a < RoHi THEN Some(a + 1)
        ELSE IF a = RoHi THEN Some(2)
        ELSE IF a >= DataLo /\ a < DataHi THEN Some(a + 1)
        ELSE IF a = DataHi THEN Some(RoLo)
        ELSE IF a = Layout.stackTop THEN Some(17)
        ELSE IF vmmap_find(a).mapped THEN Some(0)
        ELSE NONE]

\* pwndbg.gdblib.memory.peek(address)
peek(m, a) == a \in Addr /\ m[a].some

\* the low `size` bytes of a stored value (stored values fit in a pointer)
Truncate(v, size) == IF 8 * size >= PtrBits THEN v ELSE v % (2 ^ (8 * size))

\* pwndbg.gdblib.memory.poi(type, address): the value read, or a MemoryError
poi(m, a, size) ==
    IF peek(m, a)
    THEN [ok |-> TRUE, val |-> Truncate(m[a].val, size)]
    ELSE [ok |-> FALSE, val |-> 0]

\* pwndbg.gdblib.symbol.get(address): addresses that carry a symbol
SymbolAddrs == {CodeLo, 20, RoLo, DataLo}
symbol_get(v) == IF v \in SymbolAddrs THEN Some(v) ELSE NONE

(* ------------------------------------------------------------------ *)
(* Decoded instructions (the decoder's output, before enhancement)     *)
(* ------------------------------------------------------------------ *)
GenRegs == {"rax", "rbx", "rsp"}
NoMemOp == [segment |-> "", base |-> "", disp |-> 0, index |-> "", scale |-> 1]

Imm(v) == [type |-> "IMM", reg |-> "", imm |-> v, mem |-> NoMemOp, size |-> ptrsize]
Reg(r) == [type |-> "REG", reg |-> r, imm |-> 0, mem |-> NoMemOp, size |-> ptrsize]
MemOp(seg, base, disp, index, scale, sz) ==
    [type |-> "MEM", reg |-> "", imm |-> 0,
     mem |-> [segment |-> seg, base |-> base, disp |-> disp, index |-> index,
              scale |-> scale],
     size |-> sz]

Insn(a, sz, id, grps, ops) ==
    [address |-> a, size |-> sz, id |-> id, groups |-> grps, operands |-> ops]

\* the code of the debuggee: what the decoder yields at an address of the
\* code page (addresses 8 .. 14 are a straight-line region)
Program(a) ==
    CASE a = 8  -> Insn(a, 1, "nop", {}, << >>)
      [] a = 9  -> Insn(a, 1, "mov", {}, << Reg("rax"), Imm(3) >>)
      [] a = 10 -> Insn(a, 1, "add", {}, << Reg("rax"), Reg("rbx") >>)
      [] a = 11 -> Insn(a, 1, "mov", {},
                        << Reg("rbx"), MemOp("", "rip", 12, "", 1, ptrsize) >>)
      [] a = 12 -> Insn(a, 1, "lea", {},
                        << Reg("rax"), MemOp("", "rbx", 1, "", 1, ptrsize) >>)
      [] a = 13 -> Insn(a, 1, "nop", {}, << >>)
      [] a = 14 -> Insn(a, 1, "nop", {}, << >>)
      [] a = 15 -> Insn(a, 1, "je", {"JUMP"}, << Imm(18) >>)
      [] a = 16 -> Insn(a, 1, "call", {"CALL"}, << Imm(20) >>)
      [] a = 17 -> Insn(a, 1, "jmp", {"JUMP"}, << Imm(17) >>)
      [] a = 18 -> Insn(a, 1, "jmp", {"JUMP"}, << Imm(8) >>)
      [] a = 19 -> Insn(a, 1, "syscall", {"INT"}, << >>)
      [] a = 20 -> Insn(a, 1, "mov", {},
                        << Reg("rax"), MemOp("", "rsp", 0, "", 1, ptrsize) >>)
      [] a = 21 -> Insn(a, 1, "ret", {"RET"}, << >>)
      [] a = 23 -> Insn(a, 1, "jmp", {"JUMP"}, << Reg("rax") >>)

\* addresses at which the bytes decode to an instruction
Decodable == {8, 9, 10, 11, 12, 13, 14, 15, 16, 17, 18, 19, 20, 21, 23}

(* ------------------------------------------------------------------ *)
(* The CPU: what executing one instruction does to a machine state     *)
(* [pc, regs, mem, eflags].  Used for the debuggee (stepi) and for the *)
(* emulator (single_step); both are external collaborators.            *)
(* ------------------------------------------------------------------ *)
\* efl & (1 << b)
FlagBit(efl, b) == ((efl \div (2 ^ b)) % 2) * (2 ^ b)

\* the condition code of an x86 conditional jump or conditional move
X86CondCode(id) ==
    CASE id \in {"ja", "cmova"} -> "a"
      [] id \in {"jae", "cmovae"} -> "ae"
      [] id \in {"jb", "cmovb"} -> "b"
      [] id \in {"jbe", "cmovbe"} -> "be"
      [] id \in {"je", "cmove"} -> "e"
      [] id \in {"jg", "cmovg"} -> "g"
      [] id \in {"jge", "cmovge"} -> "ge"
      [] id \in {"jl", "cmovl"} -> "l"
      [] id \in {"jle", "cmovle"} -> "le"
      [] id \in {"jne", "cmovne"} -> "ne"
      [] id \in {"jno", "cmovno"} -> "no"
      [] id \in {"jnp", "cmovnp"} -> "np"
      [] id \in {"jns", "cmovns"} -> "ns"
      [] id \in {"jo", "cmovo"} -> "o"
      [] id \in {"jp", "cmovp"} -> "p"
      [] id \in {"js", "cmovs"} -> "s"
      [] OTHER -> ""

\* is flag bit b of efl set
CpuFlag(efl, b) == (efl \div (2 ^ b)) % 2 = 1

\* the architectural Jcc / CMOVcc predicate over EFLAGS
CpuCond(cc, efl) ==
    LET cf == CpuFlag(efl, 0)
        pf == CpuFlag(efl, 2)
        zf == CpuFlag(efl, 6)
        sf == CpuFlag(efl, 7)
        of == CpuFlag(efl, 11)
    IN CASE cc = "a" -> ~cf /\ ~zf
         [] cc = "ae" -> ~cf
         [] cc = "b" -> cf
         [] cc = "be" -> cf \/ zf
         [] cc = "e" -> zf
         [] cc = "g" -> ~zf /\ (sf <=> of)
         [] cc = "ge" -> sf <=> of
         [] cc = "l" -> ~(sf <=> of)
         [] cc = "le" -> zf \/ ~(sf <=> of)
         [] cc = "ne" -> ~zf
         [] cc = "no" -> ~of
         [] cc = "np" -> ~pf
         [] cc = "ns" -> ~sf
         [] cc = "o" -> of
         [] cc = "p" -> pf
         [] cc = "s" -> sf

ZF == 64

\* value of a register in a machine state while `ins` executes
CpuReg(ins, m, r) == IF r = "rip" THEN ins.address + ins.size ELSE m.regs[r]

\* effective address of a memory operand
CpuEA(ins, m, op) ==
    Mask((IF op.mem.base = "" THEN 0 ELSE CpuReg(ins, m, op.mem.base))
         + op.mem.disp
         + (IF op.mem.index = "" THEN 0
            ELSE op.mem.scale * CpuReg(ins, m, op.mem.index)))

\* can the operand be read / written without a fault
CpuCanRead(ins, m, op) == op.type # "MEM" \/ peek(m.mem, CpuEA(ins, m, op))
CpuCanWrite(ins, m, op) ==
    \/ op.type = "REG"
    \/ op.type = "MEM" /\ peek(m.mem, CpuEA(ins, m, op))
                       /\ vmmap_find(CpuEA(ins, m, op)).write

CpuRead(ins, m, op) ==
    CASE op.type = "IMM" -> Mask(op.imm)
      [] op.type = "REG" -> CpuReg(ins, m, op.reg)
      [] op.type = "MEM" -> m.mem[CpuEA(ins, m, op)].val

CpuWrite(ins, m, op, v) ==
    IF op.type = "REG"
    THEN [m EXCEPT !.regs[op.reg] = v]
    ELSE [m EXCEPT !.mem[CpuEA(ins, m, op)] = Some(v)]

CpuFlags(v) == IF v = 0 THEN ZF ELSE 0

Fault(m) == [ok |-> FALSE, m |-> m]
Done(m) == [ok |-> TRUE, m |-> m]

\* one instruction executed from machine state m (m.pc = ins.address)
CpuExec(ins, m) ==
    LET fall == ins.address + ins.size
        ops == ins.operands
    IN CASE ins.id \in {"nop", "syscall"} -> Done([m EXCEPT !.pc = Mask(fall)])
         [] ins.id = "mov" ->
              IF CpuCanRead(ins, m, ops[2]) /\ CpuCanWrite(ins, m, ops[1])
              THEN Done([CpuWrite(ins, m, ops[1], CpuRead(ins, m, ops[2]))
                            EXCEPT !.pc = Mask(fall)])
              ELSE Fault(m)
         [] ins.id = "lea" ->
              Done([CpuWrite(ins, m, ops[1], CpuEA(ins, m, ops[2]))
                       EXCEPT !.pc = Mask(fall)])
         [] ins.id \in {"add", "sub"} ->
              IF CpuCanRead(ins, m, ops[2]) /\ CpuCanWrite(ins, m, ops[1])
              THEN LET a == CpuRead(ins, m, ops[1])
                       b == CpuRead(ins, m, ops[2])
                       r == IF ins.id = "add" THEN Mask(a + b) ELSE Mask(a - b)
                   IN Done([CpuWrite(ins, m, ops[1], r)
                               EXCEPT !.pc = Mask(fall), !.eflags = CpuFlags(r)])
              ELSE Fault(m)
         [] ins.id = "jmp" ->
              IF CpuCanRead(ins, m, ops[1])
              THEN Done([m EXCEPT !.pc = CpuRead(ins, m, ops[1])])
              ELSE Fault(m)
         [] X86CondCode(ins.id) # "" /\ "JUMP" \in ins.groups ->
              Done([m EXCEPT !.pc = IF CpuCond(X86CondCode(ins.id), m.eflags)
                                    THEN CpuRead(ins, m, ops[1])
                                    ELSE Mask(fall)])
         [] ins.id = "call" ->
              LET sp == Mask(m.regs["rsp"] - ptrsize)
              IN IF peek(m.mem, sp) /\ vmmap_find(sp).write
                 THEN Done([m EXCEPT !.pc = CpuRead(ins, m, ops[1]),
                                     !.regs["rsp"] = sp,
                                     !.mem[sp] = Some(Mask(fall))])
                 ELSE Fault(m)
         [] ins.id = "ret" ->
              LET sp == m.regs["rsp"]
                  pop == IF Len(ops) > 0 THEN ops[1].imm ELSE 0
              IN IF peek(m.mem, sp)
                 THEN Done([m EXCEPT !.pc = m.mem[sp].val,
                                     !.regs["rsp"] =
                                        Mask(sp + ptrsize + pop)])
                 ELSE Fault(m)

(* ------------------------------------------------------------------ *)
(* State                                                               *)
(* ------------------------------------------------------------------ *)
VARIABLES
    arch,       \* pwndbg.gdblib.arch.current
    cfg,        \* the configuration options read by enhance
    code,       \* the debuggee's code: address -> decoded instruction
    dbg,        \* the stopped debuggee: [pc, regs, mem, eflags]
    stepis,     \* number of stepi commands given so far
    stops,      \* the program counter at each stop of the debuggee, in order
    backward_cache,              \* address -> address executed before it
    computed_instruction_cache,  \* address -> instruction computed for it
    first_time_emulate,          \* the module-level flag of __init__.py
    probes,     \* outcomes of the allocations can_run_first_emulate tried
    calls,      \* number of calls of near made so far
    nr,         \* the last call of near: arguments and outcome
    enh,        \* the last call of enhance made on its own: inputs and result
    tel,        \* the last call of telescope made on its own
    hook        \* the last call of an architecture hook made on its own

(* ------------------------------------------------------------------ *)
(* The emulator (pwndbg.emu.emulator.Emulator), an external            *)
(* collaborator: a private machine state plus the result of its last   *)
(* single step.  `active` is false for the Python value None.          *)
(* ------------------------------------------------------------------ *)
NoMachine ==
    [pc |-> 0, regs |-> [r \in GenRegs |-> 0], mem |-> InitMem, eflags |-> 0]
NoEmu == [active |-> FALSE, m |-> NoMachine, last_ok |-> FALSE, last_pc |-> NONE]

\* Emulator(): a fresh emulator seeded with the debuggee's state
NewEmulator ==
    [active |-> TRUE, m |-> dbg, last_ok |-> FALSE, last_pc |-> NONE]

\* the instruction at m.pc executed, or a fault when nothing decodes there
CpuStep(m) == IF m.pc \in DOMAIN code THEN CpuExec(code[m.pc], m) ELSE Fault(m)

\* the emulator after a step whose execution gave r: on success it has
\* moved, on failure it reports (None, None) and stays where it was
StepOutcome(emu, ok, r) ==
    IF ok /\ r.ok
    THEN [emu EXCEPT !.m = r.m, !.last_ok = TRUE, !.last_pc = Some(emu.m.pc)]
    ELSE [emu EXCEPT !.last_ok = FALSE, !.last_pc = NONE]

\* emu.single_step(check_instruction_valid=False); `ok` is whether the
\* engine manages to run the instruction (an input of the model)
single_step(emu, ok) == StepOutcome(emu, ok, CpuStep(emu.m))

\* emu.read_register(regname)
emu_read_register(emu, r) == IF r = "rip" THEN emu.m.pc ELSE emu.m.regs[r]

\* pwndbg.gdblib.regs[regname]
regs_get(r) == IF r = "rip" THEN dbg.pc ELSE dbg.regs[r]

(* ------------------------------------------------------------------ *)
(* Pointer chains                                                      *)
(* ------------------------------------------------------------------ *)
RECURSIVE ChainFrom(_, _, _, _)
\* follow pointers of `size` bytes from address a for at most `limit` hops,
\* stopping at the first address that cannot be read
ChainFrom(m, a, limit, size) ==
    IF limit <= 0 THEN << a >>
    ELSE LET r == poi(m, a, size)
         IN IF r.ok
            THEN << a >> \o ChainFrom(m, Mask(r.val), limit - 1, size)
            ELSE << a >>

\* pwndbg.chain.get(address, limit=limit) on live memory
chain_get(a, limit) == ChainFrom(dbg.mem, a, limit, ptrsize)

\* emu.telescope(address, limit, read_size=read_size) on emulated memory
emu_telescope(emu, a, limit, read_size) ==
    ChainFrom(emu.m.mem, a, limit, IF read_size.some THEN read_size.val ELSE ptrsize)

(* ------------------------------------------------------------------ *)
(* Operand resolution (arch.py, x86.py)                                *)
(* ------------------------------------------------------------------ *)
\* architectures with the x86 assistant registered (x86.py:494-495);
\* every other architecture gets generic_assistant (arch.py:143-145)
X86Archs == {"i386", "x86-64"}

can_reason_about_process_state(ins) == ins.address = dbg.pc

\* read_register reading the live registers wherever the instruction is
read_register_any_pc(ins, reg, emu) ==
    IF emu.active THEN Some(emu_read_register(emu, reg))
    ELSE Some(regs_get(reg))

\* read_register without the branch for the instruction at the program counter
read_register_emu_only(ins, reg, emu) ==
    IF emu.active THEN Some(emu_read_register(emu, reg))
    ELSE NONE

\* base DisassemblyAssistant.read_register
read_register(ins, reg, emu) ==
    IF emu.active THEN Some(emu_read_register(emu, reg))
    ELSE IF can_reason_about_process_state(ins) THEN Some(regs_get(reg))
    ELSE NONE

\* x86 DisassemblyAssistant.read_register
x86_read_register(ins, reg, emu) ==
    IF reg = "rip" THEN Some(ins.address + ins.size)
    ELSE read_register(ins, reg, emu)

\* self.read_register of the assistant of the current architecture
self_read_register(ins, reg, emu) ==
    IF arch \in X86Archs THEN x86_read_register(ins, reg, emu)
    ELSE read_register(ins, reg, emu)

parse_register(ins, op, emu) == self_read_register(ins, op.reg, emu)

parse_immediate(ins, op, emu) == Some(op.imm)

\* base DisassemblyAssistant.parse_memory
parse_memory(ins, op, emu) == NONE

\* x86 DisassemblyAssistant.parse_memory: the address, not dereferenced
x86_parse_memory(ins, op, emu) ==
    LET base == IF op.mem.base # ""
                THEN x86_read_register(ins, op.mem.base, emu) ELSE Some(0)
        index == IF op.mem.index # ""
                 THEN x86_read_register(ins, op.mem.index, emu) ELSE Some(0)
    IN IF op.mem.segment # "" THEN NONE
       ELSE IF ~base.some THEN NONE
       ELSE IF ~index.some THEN NONE
       ELSE Some(base.val + op.mem.disp + op.mem.scale * index.val)

\* self.op_handlers.get(op.type, lambda *a: None)(instruction, op, emu)
op_handlers(ins, op, emu) ==
    CASE op.type = "IMM" -> parse_immediate(ins, op, emu)
      [] op.type = "REG" -> parse_register(ins, op, emu)
      [] op.type = "MEM" -> IF arch \in X86Archs THEN x86_parse_memory(ins, op, emu)
                            ELSE parse_memory(ins, op, emu)
      [] OTHER -> NONE

\* an operand as the decoder gives it, with the fields enhancement fills
RawOperand(op) ==
    [type |-> op.type, reg |-> op.reg, imm |-> op.imm, mem |-> op.mem,
     size |-> op.size, before_value |-> NONE, after_value |-> NONE,
     symbol |-> NONE]

\* an operand whose handler gave v: before_value masked, symbol looked up
WithBefore(op, v) ==
    IF v.some
    THEN [RawOperand(op) EXCEPT !.before_value = Some(Mask(v.val)),
                                !.symbol = symbol_get(Mask(v.val))]
    ELSE RawOperand(op)

\* the first loop of enhance_operands: before_value and symbol
SetBefore(ins, op, emu) == WithBefore(op, op_handlers(ins, op, emu))

\* the second loop of enhance_operands storing what the handler gave,
\* without `&= ptrmask`
SetAfter_unmasked(ins, op, emu) ==
    [op EXCEPT !.after_value = op_handlers(ins, op, emu)]

\* the second loop of enhance_operands: after_value, from the stepped emulator
SetAfter(ins, op, emu) ==
    [op EXCEPT !.after_value = MaskOpt(op_handlers(ins, op, emu))]

\* enhance_operands setting after_value whatever the single step returned
OperandsAfterStep_unchecked(ins, before, emu, stepped) ==
    [operands |-> IF emu.active
                  THEN [i \in 1 .. Len(before) |-> SetAfter(ins, before[i], stepped)]
                  ELSE before,
     emu |-> IF emu.active THEN stepped ELSE emu,
     ret |-> emu.active /\ stepped.last_ok]

\* enhance_operands after its first loop: `stepped` is the emulator after
\* the single step (arch.py:209); after_value is set when the step succeeded
OperandsAfterStep(ins, before, emu, stepped) ==
    [operands |-> IF emu.active /\ stepped.last_ok
                  THEN [i \in 1 .. Len(before) |-> SetAfter(ins, before[i], stepped)]
                  ELSE before,
     emu |-> IF emu.active THEN stepped ELSE emu,
     ret |-> emu.active /\ stepped.last_ok]

\* DisassemblyAssistant.enhance_operands; `stepped` is what the emulator is
\* after the single step the function makes.  Returns the operands, the
\* emulator after the call and the return value (False when emulation was
\* not used or failed).
enhance_operands(ins, emu, stepped) ==
    OperandsAfterStep(ins,
                      [i \in 1 .. Len(ins.operands) |->
                          SetBefore(ins, ins.operands[i], emu)],
                      emu, stepped)

(* ------------------------------------------------------------------ *)
(* Telescoping (arch.py)                                               *)
(* ------------------------------------------------------------------ *)
\* the single read of telescope without its except clause: a MemoryError
\* leaves the function
SubWordRead_uncaught(address, size) ==
    LET r == poi(dbg.mem, address, size)
    IN [list |-> IF r.ok THEN << address, r.val >> ELSE << >>,
        did |-> r.ok, raised |-> ~r.ok]

\* the sub-word read reporting that it telescoped only when the read
\* succeeded
SubWordRead_flag_on_success(address, size) ==
    LET r == poi(dbg.mem, address, size)
    IN [list |-> IF r.ok THEN << address, r.val >> ELSE << address >>,
        did |-> r.ok, raised |-> FALSE]

\* telescope, 353-362: one read of `size` bytes; a MemoryError is caught
SubWordRead(address, size) ==
    LET r == poi(dbg.mem, address, size)
    IN [list |-> IF r.ok THEN << address, r.val >> ELSE << address >>,
        did |-> TRUE, raised |-> FALSE]

\* the branch for the instruction at the program counter reading once
\* whatever the read size
LiveTelescope_read_once(address, limit, read_size) ==
    SubWordRead(address, IF read_size.some THEN read_size.val ELSE ptrsize)

\* telescope, 352-365: the instruction is at the program counter
LiveTelescope(address, limit, read_size) ==
    IF read_size.some /\ read_size.val # ptrsize
    THEN SubWordRead(address, read_size.val)
    ELSE [list |-> chain_get(address, limit), did |-> TRUE, raised |-> FALSE]

\* telescope following pointers on every mapped page when the instruction
\* is not at the program counter
telescope_any_mapped_page(address, limit, ins, op, emu, read_size) ==
    IF emu.active
    THEN [list |-> emu_telescope(emu, address, limit, read_size),
          did |-> TRUE, raised |-> FALSE]
    ELSE IF can_reason_about_process_state(ins)
    THEN LiveTelescope(address, limit, read_size)
    ELSE IF vmmap_find(address).mapped
    THEN [list |-> chain_get(address, limit), did |-> TRUE, raised |-> FALSE]
    ELSE [list |-> << address >>, did |-> FALSE, raised |-> FALSE]

\* DisassemblyAssistant.telescope: the address list, the did_telescope flag
\* and whether an exception leaves the function
telescope(address, limit, ins, op, emu, read_size) ==
    LET can_read_process_state == can_reason_about_process_state(ins)
    IN IF emu.active
       THEN [list |-> emu_telescope(emu, address, limit, read_size),
             did |-> TRUE, raised |-> FALSE]
       ELSE IF can_read_process_state
       THEN LiveTelescope(address, limit, read_size)
       ELSE IF ~can_read_process_state \/ op.type = "IMM"
       THEN LET page == vmmap_find(address)
            IN IF page.mapped /\ ~page.write
               THEN [list |-> chain_get(address, limit), did |-> TRUE,
                     raised |-> FALSE]
               ELSE [list |-> << address >>, did |-> FALSE, raised |-> FALSE]
       ELSE [list |-> << address >>, did |-> FALSE, raised |-> FALSE]

\* the value read_memory takes from a telescope result
FirstDeref(t) == IF t.did /\ Len(t.list) >= 2 THEN Some(t.list[2]) ELSE NONE

\* DisassemblyAssistant.read_memory
read_memory(address, size, ins, op, emu) ==
    FirstDeref(telescope(address, 1, ins, op, emu, Some(size)))

\* DisassemblyAssistant.resolve_used_value (base)
resolve_used_value(value, ins, op, emu) ==
    IF ~value.some THEN NONE
    ELSE IF op.type = "REG" \/ op.type = "IMM" THEN value
    ELSE IF op.type = "MEM" THEN read_memory(value.val, op.size, ins, op, emu)
    ELSE NONE

\* DisassemblyAssistant.resolve_used_value (x86)
x86_resolve_used_value(value, ins, op, emu) ==
    IF ~value.some THEN NONE
    ELSE IF op.type = "MEM" THEN read_memory(value.val, op.size, ins, op, emu)
    ELSE resolve_used_value(value, ins, op, emu)

self_resolve_used_value(value, ins, op, emu) ==
    IF arch \in X86Archs THEN x86_resolve_used_value(value, ins, op, emu)
    ELSE resolve_used_value(value, ins, op, emu)

(* ------------------------------------------------------------------ *)
(* Branch targets (arch.py, x86.py)                                    *)
(* ------------------------------------------------------------------ *)
\* a resolved target (or None) and whether the stack was peeked / read
Target(t, stack) == [t |-> t, stack |-> stack]

\* DisassemblyAssistant.resolve_target (base)
resolve_target(ins, emu, call) ==
    IF "CALL" \in ins.groups /\ ~call THEN Target(NONE, FALSE)
    ELSE IF "CALL" \notin ins.groups /\ "JUMP" \notin ins.groups
    THEN Target(NONE, FALSE)
    ELSE IF Len(ins.operands) # 1 THEN Target(NONE, FALSE)
    ELSE Target(MaskOpt(self_resolve_used_value(ins.operands[1].before_value,
                                                ins, ins.operands[1], emu)),
                FALSE)

\* x86 resolve_target resolving a ret from the stack wherever it is
x86_resolve_target_any_pc(ins, emu, call) ==
    IF ins.id # "ret" \/ Len(ins.operands) > 1
    THEN resolve_target(ins, emu, call)
    ELSE LET pop == IF Len(ins.operands) > 0
                    THEN ins.operands[1].before_value.val ELSE 0
             address == dbg.regs["rsp"] + ptrsize * pop
         IN IF peek(dbg.mem, address)
            THEN Target(Some(poi(dbg.mem, address, ptrsize).val), TRUE)
            ELSE Target(NONE, TRUE)

\* DisassemblyAssistant.resolve_target (x86): a ret at the program counter
\* is resolved from the stack
x86_resolve_target(ins, emu, call) ==
    IF ins.id # "ret" \/ Len(ins.operands) > 1
    THEN resolve_target(ins, emu, call)
    ELSE IF ins.address # dbg.pc
    THEN resolve_target(ins, emu, call)
    ELSE LET pop == IF Len(ins.operands) > 0
                    THEN ins.operands[1].before_value.val ELSE 0
             address == dbg.regs["rsp"] + ptrsize * pop
         IN IF peek(dbg.mem, address)
            THEN Target(Some(poi(dbg.mem, address, ptrsize).val), TRUE)
            ELSE Target(NONE, TRUE)

self_resolve_target(ins, emu, call) ==
    IF arch \in X86Archs THEN x86_resolve_target(ins, emu, call)
    ELSE resolve_target(ins, emu, call)

(* ------------------------------------------------------------------ *)
(* Conditions (arch.py, x86.py)                                        *)
(* ------------------------------------------------------------------ *)
\* bool(conditional) for the entry of the table in x86 condition()
X86Conditional(cc, efl) ==
    LET cf == FlagBit(efl, 0)
        pf == FlagBit(efl, 2)
        zf == FlagBit(efl, 6)
        sf == FlagBit(efl, 7)
        of == FlagBit(efl, 11)
    IN CASE cc = "a" -> ~(cf # 0 \/ zf # 0)
         [] cc = "ae" -> cf = 0
         [] cc = "b" -> cf # 0
         [] cc = "be" -> cf # 0 \/ zf # 0
         [] cc = "e" -> zf # 0
         [] cc = "g" -> zf = 0 /\ sf = of
         [] cc = "ge" -> sf = of
         [] cc = "l" -> sf # of
         [] cc = "le" -> zf # 0 \/ sf # of
         [] cc = "ne" -> zf = 0
         [] cc = "no" -> of = 0
         [] cc = "np" -> pf = 0
         [] cc = "ns" -> sf = 0
         [] cc = "o" -> of # 0
         [] cc = "p" -> pf # 0
         [] cc = "s" -> sf # 0

\* values a condition hook returns: a Python bool, or a member of the
\* InstructionCondition enumeration
PyBool(b) == [kind |-> "bool", name |-> IF b THEN "True" ELSE "False"]
InstructionCondition(n) == [kind |-> "enum", name |-> n]

\* Python truth value: a plain enumeration member is always true
Truthy(c) == c.kind = "enum" \/ (c.kind = "bool" /\ c.name = "True")

\* DisassemblyAssistant.condition (base)
condition(ins, emu) == PyBool(FALSE)

\* DisassemblyAssistant.condition (x86)
x86_condition(ins, emu) ==
    IF ins.id \in {"jmp", "ret", "call"} THEN InstructionCondition("UNDETERMINED")
    ELSE IF ins.address # dbg.pc THEN InstructionCondition("UNDETERMINED")
    ELSE IF X86CondCode(ins.id) = "" THEN InstructionCondition("UNDETERMINED")
    ELSE IF X86Conditional(X86CondCode(ins.id), dbg.eflags)
    THEN InstructionCondition("TRUE")
    ELSE InstructionCondition("FALSE")

\* DisassemblyAssistant.enhance_conditional: the value of instruction.condition
enhance_conditional(ins, emu) ==
    LET c == IF arch \in X86Archs THEN x86_condition(ins, emu)
             ELSE condition(ins, emu)
    IN IF Truthy(c) THEN "True"
       ELSE IF c.kind # "none" THEN "False"
       ELSE "None"

\* PwndbgInstruction.is_unconditional_jump
is_unconditional_jump(ins) == ins.id = "jmp"

(* ------------------------------------------------------------------ *)
(* enhance (arch.py)                                                   *)
(* ------------------------------------------------------------------ *)
DEBUG_ENHANCEMENT == TRUE

\* the local variable `emu` of enhance: the emulator object, or None
Ref(emu, live) == IF live THEN emu ELSE NoEmu

\* the first half of enhance_next taking the emulator's program counter
\* for calls too
NextAddr_calls_from_emulator(ins, emu) ==
    IF emu.active
    THEN Target(Some(emu.m.pc), FALSE)
    ELSE IF ins.condition = "True" \/ is_unconditional_jump(ins)
    THEN self_resolve_target(ins, emu, FALSE)
    ELSE Target(NONE, FALSE)

\* the first half of enhance_next (arch.py:448-458): next_addr, or None
NextAddr(ins, emu) ==
    IF emu.active
    THEN Target(IF "CALL" \notin ins.groups THEN Some(emu.m.pc) ELSE NONE, FALSE)
    ELSE IF ins.condition = "True" \/ is_unconditional_jump(ins)
    THEN self_resolve_target(ins, emu, FALSE)
    ELSE Target(NONE, FALSE)

\* the second half of enhance_next without the fallback of target to next
NextAndTarget_no_fallback(ins, next_addr, resolved) ==
    LET next == Mask(IF next_addr.t.some THEN next_addr.t.val
                     ELSE ins.address + ins.size)
    IN [next |-> next,
        target |-> resolved.t,
        target_const |-> /\ Len(ins.operands) > 0
                         /\ ins.operands[1].before_value.some
                         /\ ins.operands[1].before_value.val # 0
                         /\ ins.operands[1].type = "IMM",
        resolved |-> resolved.t,
        stack |-> next_addr.stack \/ resolved.stack]

\* the second half of enhance_next (arch.py:460-478), given next_addr and
\* the target resolved with call=True
NextAndTarget(ins, next_addr, resolved) ==
    LET next == Mask(IF next_addr.t.some THEN next_addr.t.val
                     ELSE ins.address + ins.size)
    IN [next |-> next,
        target |-> IF ~resolved.t.some THEN Some(next) ELSE resolved.t,
        target_const |-> /\ Len(ins.operands) > 0
                         /\ ins.operands[1].before_value.some
                         /\ ins.operands[1].before_value.val # 0
                         /\ ins.operands[1].type = "IMM",
        resolved |-> resolved.t,
        stack |-> next_addr.stack \/ resolved.stack]

\* DisassemblyAssistant.enhance_next: next, target, target_const (and what
\* resolve_target(call=True) returned, whether resolution read the stack)
enhance_next(ins, emu) ==
    NextAndTarget(ins, NextAddr(ins, emu), self_resolve_target(ins, emu, TRUE))

\* a decoded instruction with the fields of PwndbgInstruction
\* instruction.annotation before a handler has written it (None). A
\* written annotation is kept as the values its string is formatted from:
\* `left => result (a sep b)`
NoAnnotation == [set |-> FALSE, result |-> NONE, a |-> NONE, b |-> NONE, sep |-> ""]

\* x86 DisassemblyAssistant.handle_add_sub_handler
handle_add_sub_handler(ins, emu, sep) ==
    LET left == ins.operands[1]
        right == ins.operands[2]
        left_before == x86_resolve_used_value(left.before_value, ins, left, emu)
        right_before == x86_resolve_used_value(right.before_value, ins, right, emu)
        plus == left_before.some /\ right_before.some
        left_after == x86_resolve_used_value(left.after_value, ins, left, emu)
    IN IF left_after.some \/ plus
       THEN [set |-> TRUE, result |-> left_after,
             a |-> IF plus THEN left_before ELSE NONE,
             b |-> IF plus THEN right_before ELSE NONE, sep |-> sep]
       ELSE ins.annotation

\* DisassemblyAssistant.set_annotation_string (base): writes nothing
set_annotation_string(ins, emu) == ins.annotation

\* x86 DisassemblyAssistant.set_annotation_string: the handler of the
\* mnemonic. Of the table only the handlers of add and sub are modelled;
\* the strings of the other mnemonics are not represented
x86_set_annotation_string(ins, emu) ==
    CASE ins.id = "add" -> handle_add_sub_handler(ins, emu, "+")
      [] ins.id = "sub" -> handle_add_sub_handler(ins, emu, "-")
      [] OTHER -> ins.annotation

NewInstruction(raw, operands) ==
    [address |-> raw.address, size |-> raw.size, id |-> raw.id,
     groups |-> raw.groups, operands |-> operands,
     condition |-> "None", next |-> 0, target |-> NONE, target_const |-> FALSE,
     annotation |-> NoAnnotation]

\* what a call of enhance leaves (disasm-annotations at its default, on, so
\* that set_annotation_string is called): the instruction, the emulator object,
\* whether an AssertionError left the function, and what the call did:
\* the single steps it made, whether enhance_operands was handed the
\* emulator (used), whether the emulator was still in use afterwards (live)
EnhanceResult(ins, nx, emu, live, did) ==
    [ins |-> [ins EXCEPT !.next = nx.next, !.target = nx.target,
                         !.target_const = nx.target_const,
                         !.annotation =
                            IF arch \in X86Archs
                            THEN x86_set_annotation_string(ins, Ref(emu, live))
                            ELSE set_annotation_string(ins, Ref(emu, live))],
     emu |-> emu, raised |-> FALSE, steps |-> did.steps, used |-> did.used,
     live |-> live, resolved |-> nx.resolved, stack |-> nx.stack]

EnhanceRaised(raw, emu) ==
    [ins |-> NewInstruction(raw, [i \in 1 .. Len(raw.operands) |->
                                     RawOperand(raw.operands[i])]),
     emu |-> emu, raised |-> TRUE, steps |-> 0, used |-> FALSE,
     live |-> FALSE, resolved |-> NONE, stack |-> FALSE]

\* enhance from enhance_conditional on (arch.py:153-155)
EnhanceTail(ins, emu, live, did) ==
    EnhanceResult(ins, enhance_next(ins, Ref(emu, live)), emu, live, did)

\* enhance after enhance_operands returned eo (arch.py:148-153)
EnhanceOperandsDone(raw, eo, emu, did) ==
    EnhanceTail([NewInstruction(raw, eo.operands) EXCEPT
                    !.condition = enhance_conditional(NewInstruction(raw, eo.operands),
                                                      Ref(emu, eo.ret))],
                emu, eo.ret, did)

\* enhance, given what the emulator is after the one step it may be asked
\* to make (arch.py:119-155)
EnhanceStepped(raw, emu0, stepped) ==
    LET off == emu0.active /\ ~cfg.emulate_annotations
        future == /\ emu0.active /\ ~off
                  /\ dbg.pc # raw.address /\ ~cfg.emulate_future_annotations
        live2 == emu0.active /\ ~off /\ ~future
        live3 == live2 /\ emu0.m.pc = raw.address
    IN IF live2 /\ DEBUG_ENHANCEMENT /\ emu0.m.pc # raw.address
       THEN EnhanceRaised(raw, emu0)
       ELSE EnhanceOperandsDone(raw,
                                enhance_operands(raw, Ref(emu0, live3), stepped),
                                IF off \/ future \/ live3 THEN stepped ELSE emu0,
                                [steps |-> IF off \/ future \/ live3 THEN 1 ELSE 0,
                                 used |-> live3])

\* DisassemblyAssistant.enhance applied to the decoded instruction `raw`
\* with the emulator `emu0` (or None); `ok` is the outcome of the one step
\* the emulator is asked to make
Enhance(raw, emu0, ok) == EnhanceStepped(raw, emu0, single_step(emu0, ok))

(* ------------------------------------------------------------------ *)
(* Fetching one instruction (__init__.py)                              *)
(* ------------------------------------------------------------------ *)
\* architectures the decoder is configured for (__init__.py:35-47)
CapstoneArch ==
    {"arm", "armcm", "aarch64", "i386", "i8086", "x86-64", "powerpc", "mips",
     "sparc", "rv32", "rv64"}

\* pwndbg.emu.emulator.arch_to_UC: architectures the emulator supports
arch_to_UC == {"i386", "x86-64", "mips", "sparc", "arm", "aarch64", "rv32", "rv64"}

DO_NOT_EMULATE == {"CALL", "INT", "INVALID", "IRET"}

\* d[k] = v on a dictionary
Put(d, k, v) == [x \in (DOMAIN d) \cup {k} |-> IF x = k THEN v ELSE d[x]]

\* d[k] on a defaultdict(lambda: None)
Lookup(d, k) == IF k \in DOMAIN d THEN Some(d[k]) ELSE NONE

\* an absent instruction (None); a present one is a one-element sequence
NoInsn == << >>

\* get_one_instruction once the bytes decoded and enhance ran (result e)
Decoded(cic, address, e, put_cache) ==
    IF e.raised
    THEN [insn |-> NoInsn, emu |-> e.emu, cic |-> cic, raised |-> TRUE,
          steps |-> e.steps]
    ELSE [insn |-> << e.ins >>, emu |-> e.emu,
          cic |-> IF put_cache THEN Put(cic, address, e.ins) ELSE cic,
          raised |-> FALSE, steps |-> e.steps]

\* get_one_instruction(address, emu, from_cache=, put_cache=) for an
\* architecture of CapstoneArch; cic is computed_instruction_cache
get_one_instruction(cic, address, emu, ok, from_cache, put_cache) ==
    IF from_cache /\ address \in DOMAIN cic
    THEN [insn |-> << cic[address] >>, emu |-> emu, cic |-> cic, raised |-> FALSE,
          steps |-> 0]
    ELSE IF address \notin DOMAIN code
    THEN [insn |-> NoInsn, emu |-> emu, cic |-> cic, raised |-> FALSE, steps |-> 0]
    ELSE Decoded(cic, address, Enhance(code[address], emu, ok), put_cache)

\* get(address, 1, emu, from_cache=, put_cache=): at most one instruction
get(cic, address, emu, ok, from_cache, put_cache) ==
    IF ~peek(dbg.mem, address)
    THEN [insn |-> NoInsn, emu |-> emu, cic |-> cic, raised |-> FALSE, steps |-> 0]
    ELSE get_one_instruction(cic, address, emu, ok, from_cache, put_cache)

\* the loop of one() over what get returned: the backward cache records
\* that insn.address executes before insn.next
Fetched(bc, g) ==
    [insn |-> g.insn, emu |-> g.emu, raised |-> g.raised, steps |-> g.steps,
     w |-> [bc |-> IF Len(g.insn) > 0
                   THEN Put(bc, g.insn[1].next, g.insn[1].address) ELSE bc,
            cic |-> g.cic]]

\* one(address, emu, from_cache=, put_cache=); w holds the two caches, and
\* steps is the number of single steps the emulator was asked to make
one(w, address, emu, ok, from_cache, put_cache) ==
    IF ~peek(dbg.mem, address)
    THEN [insn |-> NoInsn, emu |-> emu, raised |-> FALSE, steps |-> 0, w |-> w]
    ELSE Fetched(w.bc, get(w.cic, address, emu, ok, from_cache, put_cache))

(* ------------------------------------------------------------------ *)
(* near (__init__.py)                                                  *)
(* ------------------------------------------------------------------ *)
\* insns.reverse() left out
Reverse_not(q) == q

\* insns.reverse()
Reverse(q) == [i \in 1 .. Len(q) |-> q[Len(q) + 1 - i]]

\* `one(cached, from_cache=True) if cached else None`
HistoryFetch(w, cached) ==
    IF cached.some /\ cached.val # 0
    THEN one(w, cached.val, NoEmu, FALSE, TRUE, FALSE)
    ELSE [insn |-> NoInsn, emu |-> NoEmu, raised |-> FALSE, steps |-> 0, w |-> w]

\* what one evaluation of `one(cached, from_cache=True) if cached else None`
\* did: the cache entry looked up, whether an emulator came back from it,
\* the single steps made, and whether an instruction came back
Looked(cached, f) ==
    [cached |-> cached, emu |-> f.emu.active, steps |-> f.steps,
     got |-> Len(f.insn) > 0]

RECURSIVE History(_, _, _, _)
\* the loop over the backward cache taking one instruction more
HistoryLoop_one_more(f, cached, insns, instructions) ==
    IF Len(f.insn) > 0 /\ Len(insns) <= instructions
    THEN [History(f.w, Lookup(f.w.bc, f.insn[1].address),
                  Append(insns, f.insn[1]), instructions)
             EXCEPT !.looked = << Looked(cached, f) >> \o @]
    ELSE [w |-> f.w, insns |-> insns, looked |-> << Looked(cached, f) >>]

\* the test and body of the loop over the backward cache (near, 326-331)
HistoryLoop(f, cached, insns, instructions) ==
    IF Len(f.insn) > 0 /\ Len(insns) < instructions
    THEN [History(f.w, Lookup(f.w.bc, f.insn[1].address),
                  Append(insns, f.insn[1]), instructions)
             EXCEPT !.looked = << Looked(cached, f) >> \o @]
    ELSE [w |-> f.w, insns |-> insns, looked |-> << Looked(cached, f) >>]

\* previously executed instructions, most recent first, and the lookups
\* made for them (near, 324-331)
History(w, cached, insns, instructions) ==
    HistoryLoop(HistoryFetch(w, cached), cached, insns, instructions)

\* total_instructions with a count one too large
total_instructions_plus_one(instructions) == 2 + (2 * instructions)

\* total_instructions = 1 + (2 * instructions)
total_instructions(instructions) == 1 + (2 * instructions)

\* what one call `one(target, emu, put_cache=True)` of near did: the address
\* asked for, whether an emulator was passed, the single steps the emulator
\* was asked to make, whether its last step succeeded, and whether an
\* instruction came back
Visit(target, passed, f) ==
    [target |-> target, passed |-> passed, steps |-> f.steps,
     ok |-> f.emu.active /\ f.emu.last_ok, got |-> Len(f.insn) > 0]

RECURSIVE Forward(_, _, _)
\* the forward loop after one(target, emu, put_cache=True) returned f
\* (near, 368-373)
ForwardFetched(s, emulate, target, passed, f, total, fail_at) ==
    IF f.raised
    THEN [s EXCEPT !.raised = "AssertionError", !.w = f.w,
                   !.walk = Append(s.walk, Visit(target, passed, f))]
    ELSE IF f.emu.active /\ f.emu.last_ok /\ f.emu.last_pc # Some(target)
    THEN [s EXCEPT !.raised = "AssertionError", !.w = f.w,
                   !.walk = Append(s.walk, Visit(target, passed, f))]
    ELSE Forward([w |-> f.w,
                  insns |-> IF Len(f.insn) > 0
                            THEN Append(s.insns, f.insn[1]) ELSE s.insns,
                  insn |-> f.insn, emu |-> f.emu, emulate |-> emulate,
                  k |-> s.k + (IF f.emu.active THEN 1 ELSE 0),
                  raised |-> "", missing |-> Len(f.insn) = 0,
                  history |-> s.history, looked |-> s.looked,
                  walk |-> Append(s.walk, Visit(target, passed, f))],
                 total, fail_at)

\* one iteration of the forward loop that keeps an emulator whose last
\* step failed
ForwardStep_ignore_failure(s, total, fail_at) ==
    LET stop == s.emulate /\ (s.insn[1].groups \cap DO_NOT_EMULATE) # {}
        emu1 == IF stop THEN NoEmu ELSE s.emu
        target == IF emu1.active THEN emu1.m.pc ELSE s.insn[1].next
    IN ForwardFetched(s, s.emulate /\ ~stop, target, emu1.active,
                      one(s.w, target, emu1, s.k + 1 # fail_at, FALSE, TRUE),
                      total, fail_at)

\* one iteration of the forward loop that never disables emulation
ForwardStep_keep_emulating(s, total, fail_at) ==
    LET emu2 == IF s.emu.active /\ ~s.emu.last_ok THEN NoEmu ELSE s.emu
        target == IF emu2.active THEN emu2.m.pc ELSE s.insn[1].next
    IN ForwardFetched(s, s.emulate, target, emu2.active,
                      one(s.w, target, emu2, s.k + 1 # fail_at, FALSE, TRUE),
                      total, fail_at)

\* one iteration of the forward loop up to the call of one (near, 346-366);
\* the emulator's step number fail_at is the one its engine cannot run
ForwardStep(s, total, fail_at) ==
    LET stop == s.emulate /\ (s.insn[1].groups \cap DO_NOT_EMULATE) # {}
        emu1 == IF stop THEN NoEmu ELSE s.emu
        emu2 == IF emu1.active /\ ~emu1.last_ok THEN NoEmu ELSE emu1
        target == IF emu2.active THEN emu2.m.pc ELSE s.insn[1].next
    IN ForwardFetched(s, s.emulate /\ ~stop, target, emu2.active,
                      one(s.w, target, emu2, s.k + 1 # fail_at, FALSE, TRUE),
                      total, fail_at)

\* the forward loop (near, 345-373)
Forward(s, total, fail_at) ==
    IF Len(s.insn) > 0 /\ Len(s.insns) < total
    THEN ForwardStep(s, total, fail_at)
    ELSE s

\* the final loop without its guard on the third entry from the end
RECURSIVE Trim_to_one(_)
Trim_to_one(insns) ==
    IF /\ Len(insns) > 1
       /\ insns[Len(insns) - 1].address = insns[Len(insns)].address
    THEN Trim_to_one(SubSeq(insns, 1, Len(insns) - 1))
    ELSE insns

RECURSIVE Trim(_)
\* the final loop: repeated instructions at the end are removed (near, 380-381)
Trim(insns) ==
    IF /\ Len(insns) > 2
       /\ insns[Len(insns) - 2].address = insns[Len(insns) - 1].address
       /\ insns[Len(insns) - 1].address = insns[Len(insns)].address
    THEN Trim(SubSeq(insns, 1, Len(insns) - 1))
    ELSE insns

\* what a call of near leaves: the exception that left it (or ""), the
\* caches, the list before the final loop, the list returned, whether
\* an address of the walk gave no instruction, the number of history
\* instructions, the lookups of the history loop and the calls of
\* one(.., put_cache=True) in order
NearOutcome(raised, w, assembled, missing, history, looked, walk) ==
    [raised |-> raised, w |-> w, assembled |-> assembled,
     result |-> IF raised = "" THEN Trim(assembled) ELSE << >>,
     missing |-> missing, history |-> history, looked |-> looked, walk |-> walk]

NearWalked(s) ==
    NearOutcome(s.raised, s.w, s.insns, s.missing, s.history, s.looked, s.walk)

\* near from `insns.reverse()` on (near, 332-383); h is the history
NearForward(instructions, h, cur, emulate, fail_at) ==
    NearWalked(Forward([w |-> h.w,
                        insns |-> Append(Reverse(h.insns), cur.insn[1]),
                        insn |-> cur.insn, emu |-> cur.emu, emulate |-> emulate,
                        k |-> 1, raised |-> "", missing |-> FALSE,
                        history |-> Len(h.insns), looked |-> h.looked,
                        walk |-> << Visit(cur.insn[1].address,
                                          cur.emu.active, cur) >>],
                       total_instructions(instructions), fail_at))

\* near after `current = one(address, emu, put_cache=True)` (near, 311-331)
NearCurrent(instructions, emulate, show_prev_insns, had_emu, cur, fail_at) ==
    IF cur.raised
    THEN NearOutcome("AssertionError", cur.w, << >>, FALSE, 0, << >>, << >>)
    ELSE IF DEBUG_ENHANCEMENT /\ ~had_emu
    THEN NearOutcome("AttributeError", cur.w, << >>, FALSE, 0, << >>, << >>)
    ELSE IF Len(cur.insn) = 0
    THEN NearOutcome("", cur.w, << >>, TRUE, 0, << >>, << >>)
    ELSE NearForward(instructions,
                     IF show_prev_insns
                     THEN History(cur.w, Lookup(cur.w.bc, cur.insn[1].address),
                                  << >>, instructions)
                     ELSE [w |-> cur.w, insns |-> << >>, looked |-> << >>],
                     cur, emulate, fail_at)

\* the value can_run_first_emulate() returns; mmap_ok is whether its
\* probe allocation succeeds
can_run_first_emulate(mmap_ok) == IF ~first_time_emulate THEN TRUE ELSE mmap_ok

\* the emulator near starts with (near, 298-306)
NearEmulator(address, emulate, mmap_ok) ==
    IF /\ address = dbg.pc
       /\ emulate /\ arch \in arch_to_UC
       /\ ~first_time_emulate \/ can_run_first_emulate(mmap_ok)
    THEN NewEmulator ELSE NoEmu

\* near(address, instructions, emulate, show_prev_insns)
Near(address, instructions, emulate, show_prev_insns, emu, fail_at) ==
    NearCurrent(instructions, emulate /\ arch \in arch_to_UC, show_prev_insns,
                emu.active,
                one([bc |-> backward_cache, cic |-> computed_instruction_cache],
                    address, emu, fail_at # 1, FALSE, TRUE),
                fail_at)

(* ------------------------------------------------------------------ *)
(* enhance called on its own: one instruction, any emulator            *)
(* ------------------------------------------------------------------ *)
Archs == {"x86-64", "mips", "powerpc"}
Configs == [emulate_annotations : BOOLEAN, emulate_future_annotations : BOOLEAN]

\* where the instruction under enhancement sits, and another code address
Unit == [at |-> 10, other |-> 12]

\* instructions given to enhance: every operand kind and addressing mode
UnitInsns ==
    { Insn(Unit.at, sz, "nop", {}, << >>) : sz \in {1, 2} }
    \cup { Insn(Unit.at, 1, "mov", {}, << Reg("rax"), src >>) :
             src \in { Imm(3), Imm(-1), Reg("rbx"),
                       MemOp("", "rip", 13, "", 1, ptrsize),
                       MemOp("", "rbx", 0, "", 1, ptrsize),
                       MemOp("", "rbx", -1, "rax", 2, 1),
                       MemOp("", "rbx", -3, "", 1, ptrsize),
                       MemOp("", "", 25, "", 1, ptrsize),
                       MemOp("fs", "rbx", 0, "", 1, ptrsize) } }
    \cup { Insn(Unit.at, 1, "mov", {}, << MemOp("", "rbx", 0, "", 1, ptrsize), Reg("rax") >>),
           Insn(Unit.at, 1, "add", {}, << Reg("rax"), Reg("rbx") >>),
           Insn(Unit.at, 1, "add", {}, << MemOp("", "rbx", 0, "", 1, ptrsize), Reg("rax") >>),
           Insn(Unit.at, 1, "sub", {}, << Reg("rax"), Imm(1) >>),
           Insn(Unit.at, 1, "lea", {}, << Reg("rax"), MemOp("", "rbx", 1, "rax", 2, ptrsize) >>),
           Insn(Unit.at, 2, "jmp", {"JUMP"}, << Imm(17) >>),
           Insn(Unit.at, 1, "jmp", {"JUMP"}, << Reg("rax") >>),
           Insn(Unit.at, 1, "jmp", {"JUMP"}, << MemOp("", "rbx", 0, "", 1, ptrsize) >>),
           Insn(Unit.at, 2, "je", {"JUMP"}, << Imm(18) >>),
           Insn(Unit.at, 2, "jne", {"JUMP"}, << Imm(18) >>),
           Insn(Unit.at, 2, "call", {"CALL"}, << Imm(20) >>),
           Insn(Unit.at, 1, "call", {"CALL"}, << MemOp("", "rip", 13, "", 1, ptrsize) >>),
           Insn(Unit.at, 1, "ret", {"RET"}, << >>),
           Insn(Unit.at, 1, "ret", {"RET"}, << Imm(1) >>),
           Insn(Unit.at, 1, "syscall", {"INT"}, << >>) }

\* register files of the stopped debuggee
UnitRegs ==
    { [rax |-> 1, rbx |-> 24, rsp |-> 56],
      [rax |-> 61, rbx |-> 33, rsp |-> 56],
      [rax |-> 0, rbx |-> 2, rsp |-> 4] }

\* the emulators enhance may be handed: none, one standing at the
\* instruction (with the debuggee's registers, or with registers it has
\* already changed), one standing elsewhere
UnitEmus ==
    LET at == [dbg EXCEPT !.pc = Unit.at]
    IN { NoEmu,
         [active |-> TRUE, m |-> at, last_ok |-> FALSE, last_pc |-> NONE],
         [active |-> TRUE, m |-> [at EXCEPT !.regs["rax"] = 5, !.regs["rbx"] = 35],
          last_ok |-> TRUE, last_pc |-> Some(9)],
         [active |-> TRUE, m |-> [dbg EXCEPT !.pc = Unit.other],
          last_ok |-> TRUE, last_pc |-> Some(9)] }

NoEnh == [called |-> FALSE]
NoTel == [called |-> FALSE]
NoNear == [called |-> FALSE]
NoHook == [called |-> FALSE]

\* nothing fetched yet, near never called
InitCaches ==
    /\ backward_cache = << >>
    /\ computed_instruction_cache = << >>
    /\ first_time_emulate = TRUE
    /\ probes = << >>
    /\ calls = 0
    /\ nr = NoNear

InitEnhance ==
    /\ arch \in Archs
    /\ cfg \in Configs
    /\ \E ins \in UnitInsns : code = [a \in {Unit.at} |-> ins]
    /\ \E p \in {Unit.at, Unit.other}, r \in UnitRegs, f \in {0, ZF} :
          dbg = [pc |-> p, regs |-> r, mem |-> InitMem, eflags |-> f]
    /\ stepis = 0
    /\ stops = << dbg.pc >>
    /\ InitCaches
    /\ enh = NoEnh
    /\ tel = NoTel
    /\ hook = NoHook

\* DisassemblyAssistant.enhance(instruction, emu)
EnhanceCall ==
    /\ ~enh.called
    /\ \E e \in UnitEmus, ok \in BOOLEAN :
          enh' = [called |-> TRUE, raw |-> code[Unit.at], emu0 |-> e, ok |-> ok,
                  out |-> Enhance(code[Unit.at], e, ok)]
    /\ UNCHANGED << arch, cfg, code, dbg, stepis, stops, backward_cache,
                    computed_instruction_cache, first_time_emulate, probes,
                    calls, nr, tel, hook >>

vars ==
    << arch, cfg, code, dbg, stepis, stops, backward_cache,
       computed_instruction_cache, first_time_emulate, probes, calls, nr, enh, tel,
       hook >>

NextEnhance == EnhanceCall
SpecEnhance == InitEnhance /\ [][NextEnhance]_vars

(* ------------------------------------------------------------------ *)
(* telescope called on its own                                         *)
(* ------------------------------------------------------------------ *)
\* memories of the debuggee: the initial one, and one whose data chain
\* leads to an unmapped address after one hop
UnitMems == { InitMem, [InitMem EXCEPT ![DataLo + 1] = Some(2)] }

\* starting addresses: unmapped, code, read-only data, data, stack
UnitAddresses ==
    { 2, CodeLo, RoLo, RoHi - 1, DataLo, DataHi - 2, Layout.stackTop, StackHi }

\* the emulators telescope may be handed: none, one with the memory of
\* the debuggee, one whose memory has since been written
TelescopeEmus ==
    { NoEmu,
      [active |-> TRUE, m |-> dbg, last_ok |-> FALSE, last_pc |-> NONE],
      [active |-> TRUE, m |-> [dbg EXCEPT !.mem[DataLo] = Some(Layout.stackTop)],
       last_ok |-> TRUE, last_pc |-> Some(9)] }

InitTelescope ==
    /\ arch \in Archs
    /\ cfg = [emulate_annotations |-> TRUE, emulate_future_annotations |-> TRUE]
    /\ code = [a \in {Unit.at} |-> Insn(Unit.at, 1, "nop", {}, << >>)]
    /\ \E p \in {Unit.at, Unit.other}, m \in UnitMems :
          dbg = [pc |-> p, regs |-> [rax |-> 1, rbx |-> 24, rsp |-> 56],
                 mem |-> m, eflags |-> 0]
    /\ stepis = 0
    /\ stops = << dbg.pc >>
    /\ InitCaches
    /\ enh = NoEnh
    /\ tel = NoTel
    /\ hook = NoHook

\* DisassemblyAssistant.telescope(address, limit, instruction, operand, emu,
\* read_size)
TelescopeCall ==
    /\ ~tel.called
    /\ \E address \in UnitAddresses, limit \in 0 .. MaxLimit,
          op \in {Imm(0), Reg("rax"), MemOp("", "rbx", 0, "", 1, ptrsize)},
          e \in TelescopeEmus,
          read_size \in {NONE, Some(1), Some(ptrsize)} :
          tel' = [called |-> TRUE, address |-> address, limit |-> limit,
                  op |-> op, emu |-> e, read_size |-> read_size,
                  out |-> telescope(address, limit, code[Unit.at], op, e, read_size)]
    /\ UNCHANGED << arch, cfg, code, dbg, stepis, stops, backward_cache,
                    computed_instruction_cache, first_time_emulate, probes,
                    calls, nr, enh, hook >>

NextTelescope == TelescopeCall
SpecTelescope == InitTelescope /\ [][NextTelescope]_vars

(* ------------------------------------------------------------------ *)
(* The debugging session: near is called while the debuggee is         *)
(* stopped, and the debuggee is single-stepped in between              *)
(* ------------------------------------------------------------------ *)
\* where the debuggee is first stopped
StartPcs == {CodeLo, 15, 17}

\* the emulator steps that may fail: none (0), the first, the second
FailPoints == 0 .. 2

Init ==
    /\ arch \in Archs
    /\ cfg \in Configs
    /\ code = [a \in Decodable |-> Program(a)]
    /\ \E p \in StartPcs, f \in {0, ZF} :
          dbg = [pc |-> p, regs |-> [rax |-> 23, rbx |-> 24, rsp |-> 56],
                 mem |-> InitMem, eflags |-> f]
    /\ stepis = 0
    /\ stops = << dbg.pc >>
    /\ InitCaches
    /\ enh = NoEnh
    /\ tel = NoTel
    /\ hook = NoHook

\* near asks for an emulator (near, 298-305)
WantsEmulator(address, emulate) ==
    address = dbg.pc /\ emulate /\ arch \in arch_to_UC

\* outcomes of the probe of can_run_first_emulate, where it is made
ProbeOutcomes(address, emulate) ==
    IF WantsEmulator(address, emulate) /\ first_time_emulate
    THEN BOOLEAN ELSE {TRUE}

\* emulator steps that may fail, where an emulator is made
StepFailures(address, emulate, mmap_ok) ==
    IF NearEmulator(address, emulate, mmap_ok).active THEN FailPoints ELSE {0}

\* the caches and the outcome once near has run
NearReturns(address, instructions, emulate, show_prev_insns, emu, out) ==
    /\ backward_cache' = out.w.bc
    /\ computed_instruction_cache' = out.w.cic
    /\ nr' = [called |-> TRUE, pc |-> dbg.pc, address |-> address,
              instructions |-> instructions, emulate |-> emulate,
              show_prev_insns |-> show_prev_insns, emulated |-> emu.active,
              raised |-> out.raised, assembled |-> out.assembled,
              result |-> out.result, missing |-> out.missing,
              history |-> out.history, looked |-> out.looked,
              walk |-> out.walk, stepis |-> stepis]

NearRuns(address, instructions, emulate, show_prev_insns, emu, fail_at) ==
    NearReturns(address, instructions, emulate, show_prev_insns, emu,
                Near(address, instructions, emulate, show_prev_insns, emu, fail_at))

\* near(address, instructions, emulate, show_prev_insns), called while the
\* debuggee is stopped
NearCall ==
    /\ calls < MaxCalls
    /\ calls' = calls + 1
    /\ \E address \in {dbg.pc, Unit.other}, instructions \in 0 .. MaxN,
          emulate \in BOOLEAN, show_prev_insns \in BOOLEAN :
          \E mmap_ok \in ProbeOutcomes(address, emulate) :
             \E fail_at \in StepFailures(address, emulate, mmap_ok) :
                /\ first_time_emulate' =
                      (first_time_emulate /\ ~WantsEmulator(address, emulate))
                /\ probes' = IF WantsEmulator(address, emulate) /\ first_time_emulate
                             THEN Append(probes, mmap_ok) ELSE probes
                /\ NearRuns(address, instructions, emulate, show_prev_insns,
                            NearEmulator(address, emulate, mmap_ok), fail_at)
    /\ UNCHANGED << arch, cfg, code, dbg, stepis, stops, enh, tel, hook >>

\* the debuggee executes the instruction at its program counter (stepi)
Stepi ==
    /\ stepis < MaxStepi
    /\ CpuStep(dbg).ok
    /\ dbg' = CpuStep(dbg).m
    /\ stepis' = stepis + 1
    /\ stops' = Append(stops, dbg'.pc)
    /\ UNCHANGED << arch, cfg, code, backward_cache, computed_instruction_cache,
                    first_time_emulate, probes, calls, nr, enh, tel, hook >>

Next == NearCall \/ Stepi
Spec == Init /\ [][Next]_vars

(* ------------------------------------------------------------------ *)
(* Two debuggee sessions in one debugger process: a second binary is   *)
(* loaded at the addresses of the first                                *)
(* ------------------------------------------------------------------ *)
\* the code of the second binary
SecondProgram(a) ==
    IF a = CodeLo
    THEN Insn(a, 1, "mov", {}, << Reg("rbx"), Imm(5) >>)
    ELSE Insn(a, 1, "nop", {}, << >>)

\* the second binary is the one being debugged
InSecondSession == code = [a \in CodeLo .. Layout.straightHi |-> SecondProgram(a)]

InitSessions ==
    /\ arch = "x86-64"
    /\ cfg = [emulate_annotations |-> TRUE, emulate_future_annotations |-> TRUE]
    /\ code = [a \in Decodable |-> Program(a)]
    /\ dbg = [pc |-> CodeLo, regs |-> [rax |-> 23, rbx |-> 24, rsp |-> 56],
              mem |-> InitMem, eflags |-> 0]
    /\ stepis = 0
    /\ stops = << dbg.pc >>
    /\ InitCaches
    /\ enh = NoEnh
    /\ tel = NoTel
    /\ hook = NoHook

\* the debuggee is replaced by a process of the second binary, stopped
\* after its first instruction; nothing in the module runs at that point,
\* so its dictionaries and its flag stay as they are
NewSession ==
    /\ ~InSecondSession
    /\ code' = [a \in CodeLo .. Layout.straightHi |-> SecondProgram(a)]
    /\ dbg' = [pc |-> CodeLo + 1, regs |-> [rax |-> 23, rbx |-> 5, rsp |-> 56],
               mem |-> InitMem, eflags |-> 0]
    /\ stops' = << CodeLo, CodeLo + 1 >>
    /\ nr' = NoNear
    /\ UNCHANGED << arch, cfg, stepis, backward_cache, computed_instruction_cache,
                    first_time_emulate, probes, calls, enh, tel, hook >>

NextSessions == NearCall \/ Stepi \/ NewSession
SpecSessions == InitSessions /\ [][NextSessions]_vars

(* ------------------------------------------------------------------ *)
(* A session on code that loops back to the program counter            *)
(* ------------------------------------------------------------------ *)
\* the code of a loop of two instructions: the conditional jump at 15
\* goes to 18, and 18 jumps back to 15
LoopProgram(a) ==
    IF a = 18 THEN Insn(a, 1, "jmp", {"JUMP"}, << Imm(15) >>) ELSE Program(a)

InitLoop ==
    /\ arch = "x86-64"
    /\ cfg \in Configs
    /\ code = [a \in Decodable |-> LoopProgram(a)]
    /\ \E p \in {15, 18}, f \in {0, ZF} :
          dbg = [pc |-> p, regs |-> [rax |-> 23, rbx |-> 24, rsp |-> 56],
                 mem |-> InitMem, eflags |-> f]
    /\ stepis = 0
    /\ stops = << dbg.pc >>
    /\ InitCaches
    /\ enh = NoEnh
    /\ tel = NoTel
    /\ hook = NoHook

SpecLoop == InitLoop /\ [][Next]_vars

(* ------------------------------------------------------------------ *)
(* The x86 condition hook called on its own, over every EFLAGS value   *)
(* of the flags it reads                                               *)
(* ------------------------------------------------------------------ *)
\* EFLAGS values: every combination of CF, PF, ZF, SF and OF
EflagsValues ==
    { c + p + z + s + o : c \in {0, 2 ^ 0}, p \in {0, 2 ^ 2}, z \in {0, 2 ^ 6},
                          s \in {0, 2 ^ 7}, o \in {0, 2 ^ 11} }

\* the conditional jumps and conditional moves of the table of condition()
X86ConditionalIds ==
    { "ja", "jae", "jb", "jbe", "je", "jg", "jge", "jl", "jle", "jne", "jno",
      "jnp", "jns", "jo", "jp", "js",
      "cmova", "cmovae", "cmovb", "cmovbe", "cmove", "cmovg", "cmovge", "cmovl",
      "cmovle", "cmovne", "cmovno", "cmovnp", "cmovns", "cmovo", "cmovp", "cmovs" }

\* instructions given to condition(): the conditional ones, an unconditional
\* jump and an instruction outside the table
ConditionInsns ==
    { Insn(Unit.at, 2, id, {"JUMP"}, << Imm(18) >>) :
         id \in { i \in X86ConditionalIds : X86CondCode(i) # "" /\ i \notin
                    { "cmova", "cmovae", "cmovb", "cmovbe", "cmove", "cmovg",
                      "cmovge", "cmovl", "cmovle", "cmovne", "cmovno", "cmovnp",
                      "cmovns", "cmovo", "cmovp", "cmovs" } } }
    \cup { Insn(Unit.at, 1, id, {}, << Reg("rax"), Reg("rbx") >>) :
             id \in { "cmova", "cmovae", "cmovb", "cmovbe", "cmove", "cmovg",
                      "cmovge", "cmovl", "cmovle", "cmovne", "cmovno", "cmovnp",
                      "cmovns", "cmovo", "cmovp", "cmovs" } }
    \cup { Insn(Unit.at, 2, "jmp", {"JUMP"}, << Imm(18) >>),
           Insn(Unit.at, 1, "mov", {}, << Reg("rax"), Reg("rbx") >>) }

InitCondition ==
    /\ arch = "x86-64"
    /\ cfg = [emulate_annotations |-> TRUE, emulate_future_annotations |-> TRUE]
    /\ \E ins \in ConditionInsns : code = [a \in {Unit.at} |-> ins]
    /\ \E p \in {Unit.at, Unit.other}, f \in EflagsValues :
          dbg = [pc |-> p, regs |-> [rax |-> 1, rbx |-> 24, rsp |-> 56],
                 mem |-> InitMem, eflags |-> f]
    /\ stepis = 0
    /\ stops = << dbg.pc >>
    /\ InitCaches
    /\ enh = NoEnh
    /\ tel = NoTel
    /\ hook = NoHook

\* DisassemblyAssistant.condition(instruction, emu) of the x86 assistant
ConditionCall ==
    /\ ~hook.called
    /\ hook' = [called |-> TRUE, ins |-> code[Unit.at],
                out |-> x86_condition(code[Unit.at], NoEmu)]
    /\ UNCHANGED << arch, cfg, code, dbg, stepis, stops, backward_cache,
                    computed_instruction_cache, first_time_emulate, probes,
                    calls, nr, enh, tel >>

NextCondition == ConditionCall
SpecCondition == InitCondition /\ [][NextCondition]_vars

(* ------------------------------------------------------------------ *)
(* The AArch64 assistant (gdblib/disasm/aarch64.py): its condition and *)
(* memory-operand hooks called on their own                            *)
(* ------------------------------------------------------------------ *)
\* register widths, scaled with the pointer width: an x-register has the
\* width of a pointer, a w-register half of it
XBits == PtrBits
WBits == PtrBits \div 2

\* bit_math.to_signed(unsigned, bit_width)
to_signed(unsigned, bits) ==
    unsigned - 2 * (((unsigned \div (2 ^ (bits - 1))) % 2) * (2 ^ (bits - 1)))

\* AARCH64_EXTEND_MAP[ext](x), for the extends of a word and of a doubleword
AARCH64_EXTEND_MAP(ext, x) ==
    CASE ext = "UXTW" -> x % (2 ^ WBits)
      [] ext = "UXTX" -> x
      [] ext = "SXTW" -> to_signed(x, WBits)
      [] ext = "SXTX" -> to_signed(x, XBits)

\* AARCH64_BIT_SHIFT_MAP[type](value, shift_amt, bit_width)
AARCH64_BIT_SHIFT_MAP(type, value, amt, bits) ==
    CASE type = "LSL" -> (value * (2 ^ amt)) % (2 ^ bits)
      [] type = "LSR" -> value \div (2 ^ amt)

\* resolve_condition(condition, cpsr); cpsr is kept as its bits 31 .. 28,
\* the flags N, Z, C and V
resolve_condition(cc, cpsr) ==
    LET n == (cpsr \div 8) % 2
        z == (cpsr \div 4) % 2
        c == (cpsr \div 2) % 2
        v == cpsr % 2
        holds == CASE cc = "INVALID" -> TRUE
                   [] cc = "EQ" -> z = 1
                   [] cc = "NE" -> z = 0
                   [] cc = "HS" -> c = 1
                   [] cc = "LO" -> c = 0
                   [] cc = "MI" -> n = 1
                   [] cc = "PL" -> n = 0
                   [] cc = "VS" -> v = 1
                   [] cc = "VC" -> v = 0
                   [] cc = "HI" -> c = 1 /\ z = 0
                   [] cc = "LS" -> ~(c = 1 /\ z = 0)
                   [] cc = "GE" -> n = v
                   [] cc = "LT" -> n # v
                   [] cc = "GT" -> z = 0 /\ n = v
                   [] cc = "LE" -> ~(z = 0 /\ n = v)
                   [] cc \in {"AL", "NV"} -> TRUE
                   [] OTHER -> FALSE
    IN IF holds THEN InstructionCondition("TRUE") ELSE InstructionCondition("FALSE")

\* DisassemblyAssistant._register_width (AArch64)
aarch64_register_width(ins, op) == IF op.reg \in {"w0", "w2"} THEN WBits ELSE XBits

\* DisassemblyAssistant._parse_register (AArch64)
aarch64_parse_register(ins, op, emu) ==
    LET target == read_register(ins, op.reg, emu)
        width == IF ins.operands[1].type = "REG"
                 THEN aarch64_register_width(ins, ins.operands[1])
                 ELSE XBits
        ext == IF op.ext # ""
               THEN AARCH64_EXTEND_MAP(op.ext, target.val) % (2 ^ width)
               ELSE target.val
    IN IF ~target.some THEN NONE
       ELSE IF op.shift.type # ""
       THEN Some(AARCH64_BIT_SHIFT_MAP(op.shift.type, ext, op.shift.value, width)
                    % (2 ^ width))
       ELSE Some(ext)

\* _parse_memory extending and shifting the index at the width of the
\* destination register, as _parse_register does
aarch64_parse_memory_target_width(ins, op, emu) ==
    LET base == read_register(ins, op.mem.base, emu)
        index == read_register(ins, op.mem.index, emu)
        width == aarch64_register_width(ins, ins.operands[1])
        ext == IF op.ext # "" THEN AARCH64_EXTEND_MAP(op.ext, index.val) % (2 ^ width)
               ELSE index.val
        sh == IF op.shift.type # ""
              THEN AARCH64_BIT_SHIFT_MAP(op.shift.type, ext, op.shift.value, width)
              ELSE ext
    IN IF ~base.some THEN NONE
       ELSE IF op.mem.index = "" THEN Some(base.val + op.mem.disp)
       ELSE IF ~index.some THEN NONE
       ELSE Some(base.val + op.mem.disp + sh)

\* DisassemblyAssistant._parse_memory (AArch64): the address, not dereferenced
aarch64_parse_memory(ins, op, emu) ==
    LET base == read_register(ins, op.mem.base, emu)
        index == read_register(ins, op.mem.index, emu)
        ext == IF op.ext # "" THEN AARCH64_EXTEND_MAP(op.ext, index.val)
               ELSE index.val
        sh == IF op.shift.type # ""
              THEN AARCH64_BIT_SHIFT_MAP(op.shift.type, ext, op.shift.value, XBits)
              ELSE ext
    IN IF ~base.some THEN NONE
       ELSE IF op.mem.index = "" THEN Some(base.val + op.mem.disp)
       ELSE IF ~index.some THEN NONE
       ELSE Some(base.val + op.mem.disp + sh)

\* DisassemblyAssistant._condition (AArch64); operands carry the
\* before_value that enhance gave them. Without a result of its own it
\* returns the base assistant's InstructionCondition.UNDETERMINED, and
\* boolean_to_instruction_condition maps True to TRUE and False to FALSE
aarch64_condition(ins, emu) ==
    LET ops == ins.operands
        flags == read_register(ins, "cpsr", emu)
        bool(b) == IF b THEN InstructionCondition("TRUE")
                   ELSE InstructionCondition("FALSE")
        bit(v, k) == (v \div (2 ^ k)) % 2
    IN CASE ins.id = "b" /\ flags.some -> resolve_condition(ins.cc, flags.val)
         [] ins.id = "cbnz" ->
              bool(ops[1].before_value.some /\ ops[1].before_value.val # 0)
         [] ins.id = "cbz" ->
              bool(ops[1].before_value.some /\ ops[1].before_value.val = 0)
         [] /\ ins.id = "tbnz"
            /\ ops[1].before_value.some
            /\ ops[2].before_value.some ->
              bool(bit(ops[1].before_value.val, ops[2].before_value.val) = 1)
         [] /\ ins.id = "tbz"
            /\ ops[1].before_value.some
            /\ ops[2].before_value.some ->
              bool(bit(ops[1].before_value.val, ops[2].before_value.val) # 1)
         [] OTHER -> InstructionCondition("UNDETERMINED")

\* AArch64 instructions: compare/test and branch, conditional branches, and
\* loads with each form of memory operand
AArch64Insns ==
    LET op(type, reg, imm, base, disp, index, ext, sht, amt) ==
            [type |-> type, reg |-> reg, imm |-> imm,
             mem |-> [base |-> base, disp |-> disp, index |-> index],
             ext |-> ext, shift |-> [type |-> sht, value |-> amt],
             before_value |-> NONE]
        reg(r) == op("REG", r, 0, "", 0, "", "", "", 0)
        imm(v) == op("IMM", "", v, "", 0, "", "", "", 0)
        mem(b, d, i, x, s, a) == op("MEM", "", 0, b, d, i, x, s, a)
        insn(id, cc, grps, ops) ==
            [address |-> Unit.at, size |-> 4, id |-> id, cc |-> cc,
             groups |-> grps, operands |-> ops]
    IN { insn(id, "", {"JUMP"}, << reg("x0"), imm(18) >>) : id \in {"cbz", "cbnz"} }
       \cup { insn(id, "", {"JUMP"}, << reg("x0"), imm(k), imm(18) >>) :
                id \in {"tbz", "tbnz"}, k \in {0, 2} }
       \cup { insn("b", cc, {"JUMP"}, << imm(18) >>) : cc \in {"INVALID", "EQ", "GE"} }
       \cup { insn("ldr", "", {}, << reg(d), m >>) :
                d \in {"x0", "w0"},
                m \in { mem("x1", 0, "", "", "", 0),
                        mem("x1", 4, "", "", "", 0),
                        mem("x1", 0, "x2", "", "", 0),
                        mem("x1", 0, "x2", "", "LSL", 1),
                        mem("x1", 4, "w2", "UXTW", "LSL", 1),
                        mem("x1", 0, "w2", "SXTW", "", 0),
                        mem("x1", 0, "w2", "SXTW", "LSL", 1) } }

InitAArch64 ==
    /\ arch = "aarch64"
    /\ cfg = [emulate_annotations |-> TRUE, emulate_future_annotations |-> TRUE]
    /\ \E ins \in AArch64Insns : code = [a \in {Unit.at} |-> ins]
    /\ \E p \in {Unit.at, Unit.other}, x0 \in {0, 4, 5}, x2 \in {2, 5, 2 ^ (XBits - 1) + 5},
          f \in {0, 4, 9} :
          dbg = [pc |-> p,
                 regs |-> [x0 |-> x0, w0 |-> x0 % (2 ^ WBits), x1 |-> 24, x2 |-> x2,
                           w2 |-> x2 % (2 ^ WBits), cpsr |-> f],
                 mem |-> InitMem, eflags |-> 0]
    /\ stepis = 0
    /\ stops = << dbg.pc >>
    /\ InitCaches
    /\ enh = NoEnh
    /\ tel = NoTel
    /\ hook = NoHook

\* the emulators a hook may be handed: none, or one standing at the
\* instruction with registers of its own
AArch64Emus ==
    { NoEmu,
      [active |-> TRUE,
       m |-> [dbg EXCEPT !.pc = Unit.at, !.regs["x0"] = 0, !.regs["x2"] = 3,
                         !.regs["w2"] = 3],
       last_ok |-> TRUE, last_pc |-> NONE] }

\* _condition(instruction, emu), on an instruction whose operands have the
\* before_value of enhance's first pass
AArch64ConditionCall ==
    /\ ~hook.called
    /\ \E e \in AArch64Emus :
          LET raw == code[Unit.at]
              ins == [raw EXCEPT !.operands =
                        [i \in 1 .. Len(raw.operands) |->
                            [raw.operands[i] EXCEPT !.before_value =
                                CASE raw.operands[i].type = "REG" ->
                                       aarch64_parse_register(raw, raw.operands[i], e)
                                  [] raw.operands[i].type = "IMM" -> Some(raw.operands[i].imm)
                                  [] raw.operands[i].type = "MEM" ->
                                       aarch64_parse_memory(raw, raw.operands[i], e)]]]
          IN hook' = [called |-> TRUE, fn |-> "condition", ins |-> ins, emu |-> e,
                      out |-> aarch64_condition(ins, e)]
    /\ UNCHANGED << arch, cfg, code, dbg, stepis, stops, backward_cache,
                    computed_instruction_cache, first_time_emulate, probes,
                    calls, nr, enh, tel >>

\* _parse_memory(instruction, op, emu) on the memory operand of a load
AArch64ParseMemoryCall ==
    /\ ~hook.called
    /\ code[Unit.at].id = "ldr"
    /\ \E e \in AArch64Emus :
          hook' = [called |-> TRUE, fn |-> "parse_memory", ins |-> code[Unit.at],
                   emu |-> e,
                   out |-> aarch64_parse_memory(code[Unit.at],
                                                code[Unit.at].operands[2], e)]
    /\ UNCHANGED << arch, cfg, code, dbg, stepis, stops, backward_cache,
                    computed_instruction_cache, first_time_emulate, probes,
                    calls, nr, enh, tel >>

NextAArch64 == AArch64ConditionCall \/ AArch64ParseMemoryCall
SpecAArch64 == InitAArch64 /\ [][NextAArch64]_vars

(* ------------------------------------------------------------------ *)
(* Properties of enhance                                               *)
(* ------------------------------------------------------------------ *)
\* enhance returned (no AssertionError left it)
EnhanceCompleted == enh.called /\ ~enh.out.raised

\* the operands of the enhanced instruction
EnhancedOperands == enh.out.ins.operands

\* enhance_operands ran with emu = None
WithoutEmulator == EnhanceCompleted /\ ~enh.out.used

\* C1: once enhance has completed, instruction.target is not None, and it
\* equals instruction.next when resolve_target resolved nothing
C1_TargetNeverNone ==
    EnhanceCompleted =>
        /\ enh.out.ins.target.some
        /\ ~enh.out.resolved.some => enh.out.ins.target = Some(enh.out.ins.next)

\* C1 witness: enhance completed with an emulator in use on an instruction
\* whose target did not resolve, and target took the value of next
C1_Witness ==
    /\ EnhanceCompleted
    /\ enh.out.live
    /\ ~enh.out.resolved.some
    /\ enh.out.ins.target = Some(enh.out.ins.next)

\* C2: an operand has an after_value only if an emulator was supplied, it
\* was not discarded by the configuration, and its single step of this
\* instruction succeeded
C2_AfterValueOnlyFromStep ==
    enh.called =>
        \A i \in 1 .. Len(EnhancedOperands) :
            EnhancedOperands[i].after_value.some =>
                /\ enh.emu0.active
                /\ cfg.emulate_annotations
                /\ dbg.pc = enh.raw.address \/ cfg.emulate_future_annotations
                /\ enh.out.emu.last_ok
                /\ enh.out.emu.last_pc = Some(enh.raw.address)

\* C2 witness: an emulator stepped the instruction and an operand got an
\* after_value that differs from its before_value
C2_Witness ==
    /\ EnhanceCompleted
    /\ \E i \in 1 .. Len(EnhancedOperands) :
          /\ EnhancedOperands[i].after_value.some
          /\ EnhancedOperands[i].after_value # EnhancedOperands[i].before_value

\* operands whose value does not depend on the state of the debuggee: an
\* immediate, the x86 instruction pointer, an x86 memory operand without
\* segment whose base and index are each absent or the instruction pointer
StaticOperand(op) ==
    \/ op.type = "IMM"
    \/ arch \in X86Archs /\ op.type = "REG" /\ op.reg = "rip"
    \/ /\ arch \in X86Archs
       /\ op.type = "MEM"
       /\ op.mem.segment = ""
       /\ op.mem.base \in {"", "rip"}
       /\ op.mem.index \in {"", "rip"}

\* C3 as stated: without an emulator, for an instruction that is not at the
\* program counter, no operand of any kind has a before_value or a symbol
C3_Original ==
    (WithoutEmulator /\ enh.raw.address # dbg.pc) =>
        \A i \in 1 .. Len(EnhancedOperands) :
            /\ ~EnhancedOperands[i].before_value.some
            /\ ~EnhancedOperands[i].symbol.some

\* C3 amended: without an emulator, for an instruction that is not at the
\* program counter, an operand has a before_value exactly when its value
\* does not depend on the debuggee's state (immediates, x86 operands built
\* from the instruction pointer alone); operands that read a general
\* register stay unresolved, and a symbol is set only with a before_value
C3_StaticOnlyAwayFromPc ==
    (WithoutEmulator /\ enh.raw.address # dbg.pc) =>
        \A i \in 1 .. Len(EnhancedOperands) :
            /\ EnhancedOperands[i].before_value.some
                  <=> StaticOperand(enh.raw.operands[i])
            /\ EnhancedOperands[i].symbol.some
                  => EnhancedOperands[i].before_value.some

\* C3 witness: without an emulator and away from the program counter, one
\* operand (a register) is unresolved and another (static) is resolved
C3_Witness ==
    /\ WithoutEmulator
    /\ enh.raw.address # dbg.pc
    /\ \E i, j \in 1 .. Len(EnhancedOperands) :
          /\ EnhancedOperands[i].type = "REG"
          /\ ~EnhancedOperands[i].before_value.some
          /\ EnhancedOperands[j].before_value.some

\* C4: for an instruction at the program counter enhanced without an
\* emulator, the before_value of every register operand is the live value
\* of that register
C4_LiveRegisterAtPc ==
    (WithoutEmulator /\ enh.raw.address = dbg.pc) =>
        \A i \in 1 .. Len(EnhancedOperands) :
            EnhancedOperands[i].type = "REG" =>
                EnhancedOperands[i].before_value
                    = Some(Mask(dbg.regs[EnhancedOperands[i].reg]))

\* C4 witness: an instruction at the program counter, no emulator, and a
\* register operand holding the live (non-zero) value of its register
C4_Witness ==
    /\ WithoutEmulator
    /\ enh.raw.address = dbg.pc
    /\ \E i \in 1 .. Len(EnhancedOperands) :
          /\ EnhancedOperands[i].type = "REG"
          /\ EnhancedOperands[i].before_value.some
          /\ EnhancedOperands[i].before_value.val
                = dbg.regs[EnhancedOperands[i].reg]
          /\ EnhancedOperands[i].before_value.val # 0

\* an x86 return instruction that is not at the program counter
ReturnAwayFromPc ==
    /\ EnhanceCompleted
    /\ arch \in X86Archs
    /\ enh.raw.id = "ret"
    /\ enh.raw.address # dbg.pc

\* C10: enhancing an x86 ret that is not at the program counter reads
\* nothing at the stack pointer and, when no emulator is in use, leaves
\* next = address + size
C10_ReturnAwayFromPc ==
    ReturnAwayFromPc =>
        /\ ~enh.out.stack
        /\ ~enh.out.live =>
              enh.out.ins.next = Mask(enh.raw.address + enh.raw.size)

\* C10 witness: an x86 ret away from the program counter, enhanced
\* without an emulator, whose next is the address after it
C10_Witness ==
    /\ ReturnAwayFromPc
    /\ ~enh.emu0.active
    /\ enh.out.ins.next = enh.raw.address + enh.raw.size

(* ------------------------------------------------------------------ *)
(* Properties of telescope                                             *)
(* ------------------------------------------------------------------ *)
\* C5: telescope raises in none of its branches and returns a non-empty
\* list whose first entry is the starting address
C5_TelescopeNeverRaises ==
    tel.called =>
        /\ ~tel.out.raised
        /\ Len(tel.out.list) >= 1
        /\ tel.out.list[1] = tel.address

\* C5 witness: no emulator, the instruction at the program counter, a
\* one-byte read of an unreadable address: the list is the address alone
C5_Witness ==
    /\ tel.called
    /\ ~tel.emu.active
    /\ dbg.pc = Unit.at
    /\ tel.read_size = Some(1)
    /\ ~peek(dbg.mem, tel.address)
    /\ tel.out.list = << tel.address >>

RECURSIVE LinkedChain(_, _, _, _)
\* k distinct readable cells, each holding the address of the next,
\* starting at address a
LinkedChain(m, a, k, seen) ==
    \/ k = 0
    \/ /\ a \notin seen
       /\ peek(m, a)
       /\ LinkedChain(m, Mask(m[a].val), k - 1, seen \cup {a})

\* telescope called with limit N at the start of a chain of N+2 valid
\* pointers, without emulator, for the instruction at the program counter,
\* with the default read size
ChainOfLimitPlusTwo ==
    /\ tel.called
    /\ ~tel.emu.active
    /\ dbg.pc = Unit.at
    /\ tel.read_size \in {NONE, Some(ptrsize)}
    /\ LinkedChain(dbg.mem, tel.address, tel.limit + 2, {})

\* C6: with limit N over a chain of N+2 valid pointers, telescope returns
\* N+1 entries and the flag true
C6_ChainOfLimit ==
    ChainOfLimitPlusTwo =>
        /\ Len(tel.out.list) = tel.limit + 1
        /\ tel.out.did

\* C6 witness: such a call with a limit of at least two, whose entries are
\* the start and the cells after it
C6_Witness ==
    /\ ChainOfLimitPlusTwo
    /\ tel.limit >= 2
    /\ Len(tel.out.list) = tel.limit + 1
    /\ tel.out.list[2] = dbg.mem[tel.address].val

\* telescope was called without emulator for an instruction that is not at
\* the program counter
TelescopeAwayFromPc ==
    /\ tel.called
    /\ ~tel.emu.active
    /\ code[Unit.at].address # dbg.pc

\* the page of the starting address can be followed without knowing the
\* state of the process: it is mapped and not writable
StablePage == vmmap_find(tel.address).mapped /\ ~vmmap_find(tel.address).write

\* C24: without emulator and away from the program counter telescope reads
\* live memory only when the page of the address is mapped and not
\* writable; for an unmapped or writable page it returns the one-entry
\* list [address] with the flag false, whatever the kind of the operand
C24_StaticTelescope ==
    TelescopeAwayFromPc =>
        /\ ~tel.out.raised
        /\ (tel.out.did \/ Len(tel.out.list) > 1) => StablePage
        /\ ~StablePage => (tel.out.list = << tel.address >> /\ ~tel.out.did)

\* C24 witness: such a call on a readable address of a writable page, with
\* a register operand and a limit that would allow a dereference, returns
\* the address alone and the flag false
C24_Witness ==
    /\ TelescopeAwayFromPc
    /\ tel.op.type = "REG"
    /\ tel.limit >= 1
    /\ vmmap_find(tel.address).write
    /\ peek(dbg.mem, tel.address)
    /\ tel.out.list = << tel.address >>
    /\ ~tel.out.did

\* telescope could reason about the memory at the address: through the
\* emulator, through the process stopped at the instruction, or because
\* the page is mapped and not writable
CouldTelescope ==
    \/ tel.emu.active
    \/ code[Unit.at].address = dbg.pc
    \/ StablePage

\* C25 as stated: the flag is true exactly when the list holds more than
\* the starting address
C25_Original ==
    tel.called => (tel.out.did <=> Len(tel.out.list) > 1)

\* C25 (amended): the flag is true exactly when telescope could reason
\* about the memory at the address, and it is true whenever the list holds
\* more than the starting address; a list of the starting address alone
\* comes with either flag
C25_FlagMeansCouldTelescope ==
    tel.called =>
        /\ tel.out.did <=> CouldTelescope
        /\ Len(tel.out.list) > 1 => tel.out.did
        /\ ~tel.out.did => tel.out.list = << tel.address >>

\* C25 witness: a one-byte read at the program counter that fails on
\* unreadable memory returns the starting address alone and the flag true
C25_Witness ==
    /\ tel.called
    /\ ~tel.emu.active
    /\ code[Unit.at].address = dbg.pc
    /\ tel.read_size = Some(1)
    /\ ~peek(dbg.mem, tel.address)
    /\ tel.out.list = << tel.address >>
    /\ tel.out.did

(* ------------------------------------------------------------------ *)
(* Properties of near                                                  *)
(* ------------------------------------------------------------------ *)
\* near returned a list (no exception left it)
NearReturned == nr.called /\ nr.raised = ""

\* the last three entries of q have one address
EndsWithTriple(q) ==
    /\ Len(q) > 2
    /\ q[Len(q) - 2].address = q[Len(q) - 1].address
    /\ q[Len(q) - 1].address = q[Len(q)].address

\* C7: near returns at most 1 + 2n instructions, and exactly 1 + 2n when
\* every address of the walk gave an instruction and the assembled list
\* does not end with three entries of one address
C7_WindowSize ==
    NearReturned =>
        /\ Len(nr.result) <= 1 + 2 * nr.instructions
        /\ (~nr.missing /\ ~EndsWithTriple(nr.assembled)) =>
              Len(nr.result) = 1 + 2 * nr.instructions

\* C7 witness: history was asked for but there is none, and the window
\* starts at the requested address and still has 1 + 2n > 1 entries
C7_Witness ==
    /\ NearReturned
    /\ nr.show_prev_insns
    /\ nr.instructions >= 1
    /\ Len(nr.result) = 1 + 2 * nr.instructions
    /\ nr.result[1].address = nr.address

\* addresses of the straight-line region of the code
InStraightLine(a) == a >= Layout.straightLo /\ a <= Layout.straightHi

\* near returned and every instruction it assembled lies in the
\* straight-line region
StraightLineWindow ==
    /\ NearReturned
    /\ InStraightLine(nr.address)
    /\ \A i \in 1 .. Len(nr.assembled) : InStraightLine(nr.assembled[i].address)

\* C8: a window assembled over the straight-line region has exactly
\* 2n + 1 instructions, in strictly increasing address order
C8_StraightLineWindow ==
    StraightLineWindow =>
        /\ Len(nr.result) = 2 * nr.instructions + 1
        /\ \A i \in 1 .. Len(nr.result) - 1 :
              nr.result[i].address < nr.result[i + 1].address

\* C8 witness: a window over the region with two instructions of history
\* before the requested address and instructions after it
C8_Witness ==
    /\ StraightLineWindow
    /\ nr.instructions >= 2
    /\ Len(nr.result) = 2 * nr.instructions + 1
    /\ nr.result[2].address < nr.address
    /\ nr.result[Len(nr.result)].address > nr.address

\* C9: the list near returns never ends with three entries of one address;
\* it is the assembled list, from which only trailing copies of its last
\* address are removed, two of them being kept
C9_TrailingRepeats ==
    NearReturned =>
        /\ ~EndsWithTriple(nr.result)
        /\ Len(nr.result) <= Len(nr.assembled)
        /\ nr.result = SubSeq(nr.assembled, 1, Len(nr.result))
        /\ ~EndsWithTriple(nr.assembled) => nr.result = nr.assembled
        /\ EndsWithTriple(nr.assembled) =>
              /\ Len(nr.result) >= 2
              /\ \A i \in Len(nr.result) - 1 .. Len(nr.assembled) :
                    nr.assembled[i].address
                        = nr.assembled[Len(nr.assembled)].address

\* C9 witness: the assembled list ended with three or more entries of one
\* address after other instructions, and two of them were returned
C9_Witness ==
    /\ NearReturned
    /\ EndsWithTriple(nr.assembled)
    /\ Len(nr.result) > 2
    /\ Len(nr.result) < Len(nr.assembled)
    /\ nr.result[Len(nr.result)].address = nr.result[Len(nr.result) - 1].address
    /\ nr.result[1].address # nr.result[Len(nr.result)].address

(* ------------------------------------------------------------------ *)
(* near: errors                                                        *)
(* ------------------------------------------------------------------ *)
\* C11: near completes without raising whatever its arguments and the
\* state of the debuggee; it returns the empty list when the address is
\* unreadable, and otherwise a list holding the instruction at the address
C11_NearNeverRaises ==
    nr.called =>
        /\ nr.raised = ""
        /\ ~peek(dbg.mem, nr.address) => nr.result = << >>
        /\ (peek(dbg.mem, nr.address) /\ nr.address \in DOMAIN code) =>
              \E i \in 1 .. Len(nr.result) : nr.result[i].address = nr.address

(* ------------------------------------------------------------------ *)
(* The caches across sessions                                          *)
(* ------------------------------------------------------------------ *)
\* C12: in a fresh session the two caches hold no entry of the previous
\* session: they are empty until near is called in the new session, and a
\* window of the new session shows only instructions of the new binary
C12_FreshSessionCaches ==
    InSecondSession =>
        /\ ~nr.called =>
              /\ backward_cache = << >>
              /\ computed_instruction_cache = << >>
        /\ NearReturned =>
              \A i \in 1 .. Len(nr.result) :
                 /\ nr.result[i].address \in DOMAIN code
                 /\ nr.result[i].id = code[nr.result[i].address].id

\* the debuggee was observed to stop at b and next at a
ObservedStep(b, a) ==
    \E i \in 1 .. Len(stops) - 1 : stops[i] = b /\ stops[i + 1] = a

\* C13: every backward-cache entry a -> b records an observed execution:
\* the debuggee stopped at b and stopped next at a; an address the forward
\* walk only predicted (the address after a call) gets no entry
C13_BackwardCacheObserved ==
    \A a \in DOMAIN backward_cache : ObservedStep(backward_cache[a], a)

(* ------------------------------------------------------------------ *)
(* near: the forward walk and the emulator                             *)
(* ------------------------------------------------------------------ *)
\* the instruction the i-th call of one(.., put_cache=True) returned: the
\* requested one for i = 1, the forward walk's after it
Walked(i) == nr.assembled[nr.history + i]

\* the i-th call of one returned an instruction of the groups that are not
\* emulated through
NotEmulatedThrough(i) ==
    /\ nr.walk[i].got
    /\ nr.history + i <= Len(nr.assembled)
    /\ (Walked(i).groups \cap DO_NOT_EMULATE) # {}

\* C14: once the forward walk has placed a call, interrupt, invalid or
\* return-from-interrupt instruction in the window, every later instruction
\* of the window is fetched without an emulator, at the address the
\* instruction before it gives as next
C14_NoEmulationAfterCall ==
    nr.called =>
        \A i \in 1 .. Len(nr.walk) : \A j \in i + 1 .. Len(nr.walk) :
            NotEmulatedThrough(i) =>
                /\ ~nr.walk[j].passed
                /\ nr.walk[j].steps = 0
                /\ nr.walk[j].target = Walked(j - 1).next

\* C14 witness: a call was fetched with the emulator and two instructions
\* were fetched after it, without the emulator
C14_Witness ==
    /\ NearReturned
    /\ \E i \in 2 .. Len(nr.walk) :
          /\ NotEmulatedThrough(i)
          /\ "CALL" \in Walked(i).groups
          /\ nr.walk[i].passed
          /\ nr.walk[i].steps = 1
          /\ Len(nr.walk) >= i + 2
          /\ nr.walk[i + 2].got
          /\ ~nr.walk[i + 2].passed

\* C15: while a window is assembled the emulator is never single-stepped
\* on a call, interrupt, invalid or return-from-interrupt instruction, the
\* instruction at the program counter included
C15_NeverStepsThroughCall ==
    nr.called =>
        \A i \in 1 .. Len(nr.walk) :
            NotEmulatedThrough(i) => nr.walk[i].steps = 0

\* the i-th call of one was given an emulator whose single step failed
StepFailed(i) ==
    /\ nr.walk[i].passed
    /\ nr.walk[i].steps >= 1
    /\ ~nr.walk[i].ok

\* the debuggee has not moved since near was called
NearIsCurrent == nr.called /\ nr.stepis = stepis

\* next as enhance_next sets it without an emulator
StaticNext(ins) ==
    IF NextAddr(ins, NoEmu).t.some
    THEN Mask(NextAddr(ins, NoEmu).t.val)
    ELSE Mask(ins.address + ins.size)

\* C16: once a single step of the emulator fails while a window is
\* assembled, the instruction being enhanced gets no after_value and its
\* next does not come from the emulator, and no later instruction of the
\* window is fetched with the emulator
C16_FailedStepDiscardsEmulator ==
    NearIsCurrent =>
        \A i \in 1 .. Len(nr.walk) :
            StepFailed(i) =>
                /\ (nr.walk[i].got /\ nr.history + i <= Len(nr.assembled)) =>
                      /\ \A k \in 1 .. Len(Walked(i).operands) :
                            ~Walked(i).operands[k].after_value.some
                      /\ Walked(i).next = StaticNext(Walked(i))
                /\ \A j \in i + 1 .. Len(nr.walk) :
                      /\ ~nr.walk[j].passed
                      /\ nr.walk[j].steps = 0

\* C16 witness: the step failed on a forward instruction with an operand
\* that has a value, and the walk went on without the emulator
C16_Witness ==
    /\ NearIsCurrent
    /\ nr.raised = ""
    /\ \E i \in 2 .. Len(nr.walk) - 1 :
          /\ StepFailed(i)
          /\ nr.walk[i - 1].ok
          /\ Len(Walked(i).operands) > 0
          /\ Walked(i).operands[1].before_value.some
          /\ nr.walk[i + 1].got
          /\ ~nr.walk[i + 1].passed

(* ------------------------------------------------------------------ *)
(* enhance: the emulator it is given                                   *)
(* ------------------------------------------------------------------ *)
\* enhance was given an emulator that it has to discard: annotation by
\* emulation is configured off, or the emulator stands at another address
EmulatorDiscarded ==
    /\ enh.emu0.active
    /\ \/ ~cfg.emulate_annotations
       \/ enh.emu0.m.pc # enh.raw.address

\* C17: a call of enhance that is given an emulator single-steps it
\* exactly once; when the emulator is discarded (annotation by emulation
\* configured off, or emulator not at the instruction's address) the call
\* returns normally and works in static-reasoning mode
C17_StepsOnceAndReturns ==
    (enh.called /\ enh.emu0.active) =>
        /\ ~enh.out.raised
        /\ enh.out.steps = 1
        /\ EmulatorDiscarded =>
              /\ ~enh.out.used
              /\ ~enh.out.live
              /\ \A k \in 1 .. Len(EnhancedOperands) :
                    ~EnhancedOperands[k].after_value.some

(* ------------------------------------------------------------------ *)
(* near: the resource check                                            *)
(* ------------------------------------------------------------------ *)
\* the allocation of can_run_first_emulate was tried and failed
ProbeFailed == \E i \in 1 .. Len(probes) : ~probes[i]

\* C18: the resource check is tried at most once, and once it has failed
\* no call of near constructs an emulator, whatever its emulate argument
C18_NoEmulatorAfterFailedProbe ==
    /\ Len(probes) <= 1
    /\ (ProbeFailed /\ nr.called) => ~nr.emulated

(* ------------------------------------------------------------------ *)
(* near: the backward walk                                             *)
(* ------------------------------------------------------------------ *)
\* near reached its backward walk and made it
WalkedBackward ==
    /\ nr.called
    /\ Len(nr.walk) > 0
    /\ nr.show_prev_insns

\* C19: the backward walk gives no emulator to a history instruction and
\* steps none; it contributes at most n instructions, the ones the cache
\* entries looked up lead to, most recent last; it ends at the first lookup
\* that finds no entry or no instruction, or when n are collected, after at
\* most n + 1 lookups whatever the cache holds
C19_BackwardWalk ==
    WalkedBackward =>
        /\ nr.history <= nr.instructions
        /\ Len(nr.looked) = nr.history + 1
        /\ \A i \in 1 .. Len(nr.looked) :
              /\ ~nr.looked[i].emu
              /\ nr.looked[i].steps = 0
        /\ \A i \in 1 .. nr.history :
              /\ nr.looked[i].got
              /\ nr.looked[i].cached.some
              /\ nr.assembled[nr.history + 1 - i].address = nr.looked[i].cached.val
        /\ nr.history < nr.instructions => ~nr.looked[nr.history + 1].got

\* C19 witness: the backward cache holds a cycle (an instruction that jumps
\* to itself) and the walk stopped after n = 2 history instructions, while
\* the emulator was in use for the requested one
C19_Witness ==
    /\ WalkedBackward
    /\ NearReturned
    /\ nr.instructions = 2
    /\ nr.history = 2
    /\ nr.walk[1].passed
    /\ nr.assembled[1].address = nr.assembled[2].address
    /\ Lookup(backward_cache, nr.assembled[1].address)
          = Some(nr.assembled[1].address)

(* ------------------------------------------------------------------ *)
(* enhance: next                                                       *)
(* ------------------------------------------------------------------ *)
\* the address after the instruction
FallThrough(ins) == Mask(ins.address + ins.size)

\* the instruction is a jump without condition, or its condition field
\* is true
TakenBranch(ins) == ins.id = "jmp" \/ ins.condition = "True"

ConditionAtPc ==
    /\ hook.called
    /\ hook.ins.id \in X86ConditionalIds
    /\ hook.ins.address = dbg.pc

\* C21: for a conditional jump or conditional move at the program counter
\* condition() returns TRUE exactly when the architectural predicate over
\* the live EFLAGS holds, SF and OF being compared as one-bit flags
C21_ConditionMatchesFlags ==
    ConditionAtPc =>
        (hook.out = InstructionCondition("TRUE")
            <=> CpuCond(X86CondCode(hook.ins.id), dbg.eflags))

\* what the condition hook of the architecture reports for the enhanced
\* instruction
HookReported ==
    IF arch \in X86Archs THEN x86_condition(enh.out.ins, NoEmu)
    ELSE condition(enh.out.ins, NoEmu)

\* C22: enhance normalises the result of the condition hook: the condition
\* field is true only when the hook reported true, false when it reported
\* false and undetermined when it reported undetermined; so an x86
\* conditional jump at the program counter whose predicate is false,
\* enhanced without an emulator, has a condition that is not true and
\* next = address + size
C22_ConditionNormalised ==
    EnhanceCompleted =>
        /\ enh.out.ins.condition = "True" =>
              HookReported \in {InstructionCondition("TRUE"), PyBool(TRUE)}
        /\ HookReported \in {InstructionCondition("FALSE"), PyBool(FALSE)} =>
              enh.out.ins.condition = "False"
        /\ HookReported = InstructionCondition("UNDETERMINED") =>
              enh.out.ins.condition \notin {"True", "False"}
        /\ ( /\ arch \in X86Archs
             /\ ~enh.emu0.active
             /\ enh.out.ins.id \in X86ConditionalIds
             /\ "JUMP" \in enh.out.ins.groups
             /\ enh.out.ins.address = dbg.pc
             /\ ~CpuCond(X86CondCode(enh.out.ins.id), dbg.eflags) ) =>
              /\ enh.out.ins.condition # "True"
              /\ enh.out.ins.next = FallThrough(enh.out.ins)

(* ------------------------------------------------------------------ *)
(* The AArch64 hooks                                                   *)
(* ------------------------------------------------------------------ *)
\* _condition was called on a compare/test and branch whose tested register
\* cannot be resolved: no emulator, and the instruction is not at the
\* program counter
UnresolvedTest ==
    /\ hook.called
    /\ hook.fn = "condition"
    /\ hook.ins.id \in {"cbz", "cbnz", "tbz", "tbnz"}
    /\ ~hook.emu.active
    /\ hook.ins.address # dbg.pc

\* C23: for CBZ, CBNZ, TBZ and TBNZ whose tested register is unresolved the
\* condition is Undetermined, never False
C23_UnresolvedIsUndetermined ==
    UnresolvedTest => hook.out = InstructionCondition("UNDETERMINED")

\* _parse_memory was called on a memory operand with an index register
IndexedMemory ==
    /\ hook.called
    /\ hook.fn = "parse_memory"
    /\ hook.ins.operands[2].mem.index # ""

\* the value of a register as the hook can know it: from the emulator, from
\* the process stopped at the instruction, or not at all
KnownRegister(r) ==
    IF hook.emu.active THEN Some(hook.emu.m.regs[r])
    ELSE IF hook.ins.address = dbg.pc THEN Some(dbg.regs[r])
    ELSE NONE

\* the index of the operand after its extend: the low word, zero- or
\* sign-extended
ExtendedIndex(op, x) ==
    CASE op.ext = "" -> x
      [] op.ext = "UXTW" -> x % (2 ^ WBits)
      [] op.ext = "SXTW" -> IF (x % (2 ^ WBits)) >= 2 ^ (WBits - 1)
                            THEN (x % (2 ^ WBits)) - (2 ^ WBits)
                            ELSE x % (2 ^ WBits)

\* the address of an indexed operand whose shift is a left shift made at
\* `width` bits, the extend coming first
IndexedAddress(op, width) ==
    LET b == KnownRegister(op.mem.base)
        i == KnownRegister(op.mem.index)
        x == ExtendedIndex(op, i.val)
    IN IF b.some /\ i.some
       THEN Some(b.val + op.mem.disp
                 + IF op.shift.type = "LSL"
                   THEN ((IF op.ext # "" THEN x % (2 ^ width) ELSE x)
                            * (2 ^ op.shift.value)) % (2 ^ width)
                   ELSE x)
       ELSE NONE

\* C26 as stated: the index is extended and shifted at the width of a
\* w-register when the first operand is a w-register, and at the width of
\* an x-register otherwise
C26_Original ==
    IndexedMemory =>
        hook.out = IndexedAddress(hook.ins.operands[2],
                                  IF hook.ins.operands[1].reg = "w0" THEN WBits
                                  ELSE XBits)

\* C26 (amended): the address of an indexed AArch64 memory operand is
\* base + displacement + shift(extend(index)), the extend applied before the
\* shift and the shift made at the width of an x-register whatever the
\* destination operand is; it is unresolved when base or index is
\* unresolved
C26_IndexedAddress ==
    IndexedMemory =>
        /\ hook.out = IndexedAddress(hook.ins.operands[2], XBits)
        /\ hook.out.some <=> ( /\ KnownRegister(hook.ins.operands[2].mem.base).some
                               /\ KnownRegister(hook.ins.operands[2].mem.index).some )

\* C26 witness: a load into a w-register through a sign-extended, shifted
\* index whose shifted value does not fit the width of a w-register
C26_Witness ==
    /\ IndexedMemory
    /\ hook.ins.operands[1].reg = "w0"
    /\ hook.ins.operands[2].ext = "SXTW"
    /\ hook.ins.operands[2].shift.type = "LSL"
    /\ hook.out.some
    /\ hook.out # IndexedAddress(hook.ins.operands[2], WBits)

(* ------------------------------------------------------------------ *)
(* Annotations                                                         *)
(* ------------------------------------------------------------------ *)
\* the annotation of an x86 add or sub enhanced with an emulator that made
\* the step shows a result and both values of `a OP b`
AddSubAnnotated ==
    /\ EnhanceCompleted
    /\ arch \in X86Archs
    /\ enh.out.ins.id \in {"add", "sub"}
    /\ enh.out.live
    /\ enh.out.ins.annotation.set
    /\ enh.out.ins.annotation.result.some
    /\ enh.out.ins.annotation.a.some
    /\ enh.out.ins.annotation.b.some

\* C27: for an x86 add or sub enhanced with an active emulator, a OP b of
\* the annotation, taken modulo the operand width, equals the value shown
\* as the destination after the operation, for a register and for a memory
\* destination
C27_AnnotationArithmetic ==
    AddSubAnnotated =>
        enh.out.ins.annotation.result.val =
            IF enh.out.ins.annotation.sep = "+"
            THEN Mask(enh.out.ins.annotation.a.val + enh.out.ins.annotation.b.val)
            ELSE Mask(enh.out.ins.annotation.a.val - enh.out.ins.annotation.b.val)

(* ------------------------------------------------------------------ *)
(* near: the final loop and the requested instruction                  *)
(* ------------------------------------------------------------------ *)
\* near returned, and its forward walk had placed at least one instruction
\* after the requested one
WalkedForward == NearReturned /\ Len(nr.assembled) > nr.history + 1

\* C28: the final loop never removes the requested instruction or the one
\* that follows it: whenever the forward walk produced an instruction, the
\* entry of the requested address is still followed by one in the list
\* returned, also when history entries have the address of the requested
\* instruction
C28_CurrentAndNextKept ==
    WalkedForward =>
        /\ Len(nr.result) >= nr.history + 2
        /\ nr.result[nr.history + 1].address = nr.address

(* ------------------------------------------------------------------ *)
(* enhance: values are pointer-sized                                   *)
(* ------------------------------------------------------------------ *)
\* C29: after enhancement every resolved before_value and after_value and
\* the instruction's next lie in 0 .. 2^PtrBits - 1, also when the x86
\* address base + displacement + scale * index is negative or exceeds the
\* pointer width; before_value and after_value are masked alike, so that an
\* immediate has the same value before and after
C29_PointerSizedValues ==
    EnhanceCompleted =>
        /\ enh.out.ins.next \in 0 .. ptrmask
        /\ \A i \in 1 .. Len(EnhancedOperands) :
              /\ EnhancedOperands[i].before_value.some =>
                    EnhancedOperands[i].before_value.val \in 0 .. ptrmask
              /\ EnhancedOperands[i].after_value.some =>
                    EnhancedOperands[i].after_value.val \in 0 .. ptrmask
              /\ (EnhancedOperands[i].type = "IMM"
                    /\ EnhancedOperands[i].after_value.some) =>
                    EnhancedOperands[i].after_value
                       = EnhancedOperands[i].before_value

\* C29 witness: the emulator stepped over an x86 instruction with a memory
\* operand whose address rbx + displacement is negative, and the operand's
\* before_value and after_value are that address plus 2^PtrBits
C29_Witness ==
    /\ EnhanceCompleted
    /\ arch \in X86Archs
    /\ enh.out.live
    /\ Len(EnhancedOperands) = 2
    /\ EnhancedOperands[2].type = "MEM"
    /\ EnhancedOperands[2].mem.base = "rbx"
    /\ EnhancedOperands[2].mem.index = ""
    /\ enh.emu0.m.regs["rbx"] + EnhancedOperands[2].mem.disp < 0
    /\ EnhancedOperands[2].before_value
          = Some(enh.emu0.m.regs["rbx"] + EnhancedOperands[2].mem.disp + 2 ^ PtrBits)
    /\ EnhancedOperands[2].after_value = EnhancedOperands[2].before_value

(* ------------------------------------------------------------------ *)
(* near called twice                                                   *)
(* ------------------------------------------------------------------ *)
\* the addresses of a list of instructions
Addresses(q) == [i \in 1 .. Len(q) |-> q[i].address]

\* no single step of the emulator failed in the call of near recorded in n
NoStepFailed(n) ==
    \A i \in 1 .. Len(n.walk) :
        ~(n.walk[i].passed /\ n.walk[i].steps >= 1 /\ ~n.walk[i].ok)

\* this step is a call near(pc, n, emulate, show_prev_insns=True) that
\* repeats the call before it: same arguments, the debuggee where it was,
\* the emulator behaving alike, both calls returning
SameCallAgain ==
    /\ nr.called
    /\ calls' = calls + 1
    /\ nr.stepis = stepis
    /\ nr.address = nr.pc
    /\ nr.show_prev_insns
    /\ nr'.address = nr.address
    /\ nr'.instructions = nr.instructions
    /\ nr'.emulate = nr.emulate
    /\ nr'.show_prev_insns
    /\ nr'.emulated = nr.emulated
    /\ nr.raised = ""
    /\ nr'.raised = ""
    /\ NoStepFailed(nr)
    /\ NoStepFailed(nr')

\* C30: a call of near that repeats the call before it, the debuggee not
\* having moved, returns the same sequence of instruction addresses: what
\* the first call's forward walk wrote to the caches does not change the
\* history of the second call's window
C30_SameWindowAgain ==
    [][SameCallAgain => Addresses(nr'.result) = Addresses(nr.result)]_vars

====
